---------------------------- MODULE Spec2Model ----------------------------
(***************************************************************************)
(* A model of bokeh/document.py: the Document container (roots, the        *)
(* id-keyed table _all_models, the by-name index, the freeze counter, the  *)
(* title, the change listeners), its JSON form and its JSON patches.       *)
(*                                                                         *)
(* Every public operation of Document is one action.  The operation is     *)
(* computed on a record w ("the world": the fields of both documents and   *)
(* of every model instance) by an operator that follows the source line by *)
(* line; the action commits the record the operator returns.  What a       *)
(* listener can see when it is called is stored with the event it is       *)
(* called with, so that the states in the middle of an operation, which    *)
(* only a listener observes, can be spoken about.                          *)
(*                                                                         *)
(* The Model class is not part of document.py.  Its part (references,      *)
(* attach/detach, property assignment) is modelled from the specification  *)
(* of the Model capability; each model has one reference property "child"  *)
(* and the property "name".                                                *)
(***************************************************************************)
EXTENDS Integers, Sequences, FiniteSets, TLC

\* ------------------------------------------------------------------ values

None == "None"
Ok == "ok"

Docs == {"d1", "d2"}
\* The document the user code builds; the other one is a destination of
\* moves and the replica of d1.
UserDocs == {"d1"}
Ids == {"a", "b", "c"}
\* The instances the user code constructs, and the instances a deserializer
\* constructs for the same ids (two of each: a live one and a fresh one).
Orig == {"A", "B", "C"}
Copies == {"A1", "B1", "C1", "A2", "B2", "C2"}
Model == Orig \cup Copies
IdOf == [m \in Model |-> CASE m \in {"A", "A1", "A2"} -> "a"
                           [] m \in {"B", "B1", "B2"} -> "b"
                           [] OTHER -> "c"]
Names == {"p", "q"}
DEFAULT_TITLE == "Bokeh Application"
Titles == {DEFAULT_TITLE, "X"}
Listeners == {"L1", "L2"}
\* The callables the user code registers as session callbacks.
UserCallbacks == {"f", "g"}
\* The events of one patch, at most.
MaxBatch == 2
\* The ids of the handles of session callbacks are 1..MaxHandles.
MaxHandles == 3
\* The models d1 is built of before d2 is made its copy.
BuildModels == {"A", "B"}

\* The iteration orders of a Python set s: the sequences that list it once.
Orders(s) ==
  {o \in [1..Cardinality(s) -> s] : \A i, j \in 1..Cardinality(s) : i # j => o[i] # o[j]}

VARIABLES
  roots,          \* Document._roots
  all_models,     \* Document._all_models: id -> instance (None: no entry)
  by_name,        \* Document._all_models_by_name: name -> entry of the _MultiValuedDict
  title,          \* Document._title
  freeze,         \* Document._all_models_freeze_count
  callbacks,      \* Document._callbacks (the listeners)
  child,          \* Model: the reference property of each instance
  name,           \* Model: the name of each instance
  document,       \* Model._document
  session_callbacks, \* Document._session_callbacks: user callback -> handle
  curdoc,         \* bokeh.io: the process-wide current document
  phase,          \* "build": d1 is built; "synced": d2 was made from the JSON of
                  \* d1; "patched", "failed": the patch was applied to d2, or not
  captured,       \* the events of d1 since d2 was made
  index,          \* a _MultiValuedDict of its own: key -> entry
  receiver,       \* the methods the receiver of the events has
  dispatched      \* the last dispatch: the methods called and the exception

vars == <<roots, all_models, by_name, title, freeze, callbacks, child, name, document,
          session_callbacks, curdoc, phase, captured, index, receiver, dispatched>>

\* ------------------------------------------------------------ the world

\* The world an operation starts in: the state, and the record of the
\* operation, which is empty:
\*   emitted   the calls of _trigger_on_change the operation has made
\*   received  the calls each listener has got
\*   exc       the exception the operation has raised (Ok: none)
\*   hung      the operation ran a loop past its iteration budget
\*   foreign   the operation attached a model that another document owns
\*   invoked   the session callbacks that ran, with the current document
\*             each of them saw
\* and what the operation depends on besides its arguments:
\*   script    what each listener does when it is called for the first time
\*             in the operation (Pass: it only looks); later it only looks
\*   acted     the listeners that have done it
\*   order     the iteration order of the dict _callbacks
\*   py        the major version of Python: dict.values() is a list in
\*             Python 2 and a view of the dict in Python 3
Pass == [do |-> "pass"]

World ==
  [roots |-> roots, all_models |-> all_models, by_name |-> by_name,
   title |-> title, freeze |-> freeze, callbacks |-> callbacks,
   child |-> child, name |-> name, document |-> document,
   session_callbacks |-> session_callbacks, curdoc |-> curdoc,
   emitted |-> <<>>, received |-> [l \in Listeners |-> <<>>], exc |-> Ok,
   hung |-> FALSE, foreign |-> FALSE, invoked |-> <<>>,
   script |-> [l \in Listeners |-> Pass], acted |-> {},
   order |-> <<"L1", "L2">>, py |-> 3]

\* The events of the operation that ended in w, as a listener of d1 gets them.
Events(w) ==
  LET of_d1 == SelectSeq(w.emitted, LAMBDA c : c.event.document = "d1")
  IN [k \in DOMAIN of_d1 |-> of_d1[k].event]

\* The state after an operation that ended in the world w.
CommitAs(w, ph, cap) ==
  /\ ~w.foreign
  /\ roots' = w.roots
  /\ all_models' = w.all_models
  /\ by_name' = w.by_name
  /\ title' = w.title
  /\ freeze' = w.freeze
  /\ callbacks' = w.callbacks
  /\ child' = w.child
  /\ name' = w.name
  /\ document' = w.document
  /\ session_callbacks' = w.session_callbacks
  /\ curdoc' = w.curdoc
  /\ phase' = ph
  /\ captured' = cap
  /\ UNCHANGED <<index, receiver, dispatched>>

\* While d2 is kept as a copy of d1, the events of d1 are captured, at most
\* MaxBatch of them before they are sent as a patch.
Commit(w) ==
  IF phase = "synced"
  THEN Len(captured) + Len(Events(w)) <= MaxBatch /\ CommitAs(w, phase, captured \o Events(w))
  ELSE CommitAs(w, phase, captured)

Raise(w, e) == [w EXCEPT !.exc = e]

\* The values of the dict _all_models.
Values(table) == {table[i] : i \in Ids} \ {None}

\* next(iter(s)) for a set s of models, under the iteration order ord: the
\* member of s that ord lists first (any member, when ord lists none).
First(s, ord) ==
  IF \E k \in DOMAIN ord : ord[k] \in s
  THEN ord[CHOOSE k \in DOMAIN ord : ord[k] \in s /\ \A j \in 1..(k - 1) : ord[j] \notin s]
  ELSE CHOOSE m \in s : TRUE


\* -------------------------------------------------------- Event.dispatch

\* The methods a receiver of events may have.
Methods ==
  {"_document_changed", "_document_patched", "_document_model_changed",
   "_session_callback_added", "_session_callback_removed"}

EventKinds ==
  {"ModelChanged", "TitleChanged", "RootAdded", "RootRemoved",
   "SessionCallbackAdded", "SessionCallbackRemoved"}

\* receiver.method(self): an attribute the receiver does not have raises.
call_method(r, rcv, method) ==
  IF r.exc # Ok THEN r
  ELSE IF method \in rcv THEN [r EXCEPT !.calls = Append(@, method)]
  ELSE [r EXCEPT !.exc = "AttributeError: " \o method]

\* if hasattr(receiver, has): receiver.method(self)
call_if_has(r, rcv, has, method) ==
  IF r.exc = Ok /\ has \in rcv THEN call_method(r, rcv, method) ELSE r

DocumentChangedEvent_dispatch(r, rcv) ==
  call_if_has(r, rcv, "_document_changed", "_document_changed")

DocumentPatchedEvent_dispatch(r, rcv) ==
  call_if_has(DocumentChangedEvent_dispatch(r, rcv), rcv, "_document_patched",
              "_document_patched")

ModelChangedEvent_dispatch(r, rcv) ==
  call_if_has(DocumentPatchedEvent_dispatch(r, rcv), rcv, "_document_model_changed",
              "_document_patched")

SessionCallbackAdded_dispatch(r, rcv) ==
  call_if_has(DocumentChangedEvent_dispatch(r, rcv), rcv, "_session_callback_added",
              "_session_callback_added")

SessionCallbackRemoved_dispatch(r, rcv) ==
  call_if_has(DocumentChangedEvent_dispatch(r, rcv), rcv, "_session_callback_removed",
              "_session_callback_removed")

\* event.dispatch(receiver) for an event of the kind: the methods called, in
\* order, and the exception raised, if any.
dispatch(kind, rcv) ==
  LET r == [exc |-> Ok, calls |-> <<>>] IN
  CASE kind = "ModelChanged" -> ModelChangedEvent_dispatch(r, rcv)
    [] kind \in {"TitleChanged", "RootAdded", "RootRemoved"} ->
         DocumentPatchedEvent_dispatch(r, rcv)
    [] kind = "SessionCallbackAdded" -> SessionCallbackAdded_dispatch(r, rcv)
    [] kind = "SessionCallbackRemoved" -> SessionCallbackRemoved_dispatch(r, rcv)

\* ------------------------------------------------------- _MultiValuedDict

\* An entry of _MultiValuedDict._dict: no entry, a single value, or a set.
Absent == [t |-> "absent"]
One(v) == [t |-> "one", v |-> v]
Many(s) == [t |-> "set", s |-> s]
EmptyDict == [k \in Names |-> Absent]

\* Variant: the value takes the place of the single value of the key.
add_value_overwrite(dict, key, value) ==
  LET existing == dict[key] IN
  IF existing.t = "set" THEN [dict EXCEPT ![key] = Many(existing.s \cup {value})]
  ELSE [dict EXCEPT ![key] = One(value)]

add_value(dict, key, value) ==
  LET existing == dict[key] IN
  IF existing.t = "absent" THEN [dict EXCEPT ![key] = One(value)]
  ELSE IF existing.t = "set" THEN [dict EXCEPT ![key] = Many(existing.s \cup {value})]
  ELSE [dict EXCEPT ![key] = Many({existing.v, value})]

remove_value(dict, key, value) ==
  LET existing == dict[key] IN
  IF existing.t = "set"
  THEN LET s == existing.s \ {value} IN
       IF s = {} THEN [dict EXCEPT ![key] = Absent] ELSE [dict EXCEPT ![key] = Many(s)]
  ELSE IF existing.t = "one" /\ existing.v = value THEN [dict EXCEPT ![key] = Absent]
  ELSE dict

\* A value that is a set: isinstance(value, set).
SetValue == "set()"

\* add_value(key, value) with its tests of the arguments: the exception
\* raised, if any, and the dict.
checked_add_value(dict, key, value) ==
  IF key = None THEN [exc |-> "ValueError: Key is None", dict |-> dict]
  ELSE IF value = None THEN [exc |-> "ValueError: Can't put None in this dict", dict |-> dict]
  ELSE IF value = SetValue
  THEN [exc |-> "ValueError: Can't put sets in this dict", dict |-> dict]
  ELSE [exc |-> Ok, dict |-> add_value(dict, key, value)]

\* remove_value(key, value) with its test of the key.  For a key with no
\* entry, existing is None, which is equal to the value None: del raises.
checked_remove_value(dict, key, value) ==
  IF key = None THEN [exc |-> "ValueError: Key is None", dict |-> dict]
  ELSE IF dict[key].t = "absent" /\ value = None THEN [exc |-> "KeyError", dict |-> dict]
  ELSE [exc |-> Ok, dict |-> remove_value(dict, key, value)]

\* get_all, as the set of the list it returns.
get_all(dict, k) ==
  LET existing == dict[k] IN
  IF existing.t = "absent" THEN {}
  ELSE IF existing.t = "set" THEN existing.s
  ELSE {existing.v}

\* get_one: the result is the value returned (None: none) and the exception
\* raised, if any.
get_one(dict, k, duplicate_error) ==
  LET existing == dict[k] IN
  IF existing.t = "set"
  THEN IF Cardinality(existing.s) = 1
       THEN [exc |-> Ok, value |-> CHOOSE x \in existing.s : TRUE]
       ELSE [exc |-> "ValueError: " \o duplicate_error, value |-> None]
  ELSE IF existing.t = "one" THEN [exc |-> Ok, value |-> existing.v]
  ELSE [exc |-> Ok, value |-> None]

\* ------------------------------------------ the Model capability (external)

RECURSIVE walk(_, _, _)
walk(w, m, seen) ==
  IF m = None \/ m \in seen THEN seen ELSE walk(w, w.child[m], seen \cup {m})

\* Model.references(): the models reachable from m, m included.
references(w, m) == walk(w, m, {})

\* Model.collect_models(value): the models found in a value.
collect_models(w, value) == IF value \in Model THEN references(w, value) ELSE {}

\* A model is owned by at most one document: attaching a model another
\* document owns is a call the capability does not allow (the flag foreign).
_attach_document(w, m, d) ==
  [w EXCEPT !.document[m] = d,
            !.foreign = @ \/ w.document[m] \notin {None, d}]

_detach_document(w, m) == [w EXCEPT !.document[m] = None]

RECURSIVE detach_each(_, _)
detach_each(w, s) ==
  IF s = {} THEN w
  ELSE LET m == CHOOSE x \in s : TRUE IN detach_each(_detach_document(w, m), s \ {m})

RECURSIVE attach_each(_, _, _)
attach_each(w, s, d) ==
  IF s = {} THEN w
  ELSE LET m == CHOOSE x \in s : TRUE IN attach_each(_attach_document(w, m, d), s \ {m}, d)

RECURSIVE add_each_name(_, _, _)
add_each_name(w, dict, s) ==
  IF s = {} THEN dict
  ELSE LET m == CHOOSE x \in s : TRUE IN
       add_each_name(w, IF w.name[m] # None THEN add_value(dict, w.name[m], m) ELSE dict,
                     s \ {m})

\* ------------------------------------------------------- Document: freeze

_push_all_models_freeze(w, d) == [w EXCEPT !.freeze[d] = @ + 1]

\* Variant: the models that are no longer reached keep their document.
recompute_without_detach(w, d) ==
  LET new_all_models_set == UNION {references(w, r) : r \in w.roots[d]}
      to_attach == new_all_models_set \ Values(w.all_models[d])
      recomputed == [i \in Ids |->
                       IF \E m \in new_all_models_set : IdOf[m] = i
                       THEN CHOOSE m \in new_all_models_set : IdOf[m] = i
                       ELSE None]
      w2 == attach_each(w, to_attach, d)
  IN [w2 EXCEPT !.all_models[d] = recomputed,
                !.by_name[d] = add_each_name(w, EmptyDict, new_all_models_set)]

_recompute_all_models(w, d) ==
  LET new_all_models_set == UNION {references(w, r) : r \in w.roots[d]}
      old_all_models_set == Values(w.all_models[d])
      to_detach == old_all_models_set \ new_all_models_set
      to_attach == new_all_models_set \ old_all_models_set
      recomputed == [i \in Ids |->
                       IF \E m \in new_all_models_set : IdOf[m] = i
                       THEN CHOOSE m \in new_all_models_set : IdOf[m] = i
                       ELSE None]
      recomputed_by_name == add_each_name(w, EmptyDict, new_all_models_set)
      w1 == detach_each(w, to_detach)
      w2 == attach_each(w1, to_attach, d)
  IN [w2 EXCEPT !.all_models[d] = recomputed, !.by_name[d] = recomputed_by_name]

\* Variant: the last pop does not recompute.
pop_without_recompute(w, d) == [w EXCEPT !.freeze[d] = @ - 1]

_pop_all_models_freeze(w, d) ==
  LET w1 == [w EXCEPT !.freeze[d] = @ - 1] IN
  IF w1.freeze[d] = 0 THEN _recompute_all_models(w1, d) ELSE w1

_invalidate_all_models(w, d) ==
  IF w.freeze[d] = 0 THEN _recompute_all_models(w, d) ELSE w

\* ------------------------------------------------------ Document: events

TitleChangedEvent(d, t) == [kind |-> "TitleChanged", document |-> d, title |-> t]
RootAddedEvent(d, m) == [kind |-> "RootAdded", document |-> d, model |-> m]
RootRemovedEvent(d, m) == [kind |-> "RootRemoved", document |-> d, model |-> m]
ModelChangedEvent(d, m, attr, old, new) ==
  [kind |-> "ModelChanged", document |-> d, model |-> m, attr |-> attr,
   old |-> old, new |-> new]
SessionCallbackAdded(d, callback) ==
  [kind |-> "SessionCallbackAdded", document |-> d, callback |-> callback]
SessionCallbackRemoved(d, callback) ==
  [kind |-> "SessionCallbackRemoved", document |-> d, callback |-> callback]

\* A call of a listener: the event, and what the listener can see at that
\* moment of the document (d) and of the process: the current document, the
\* models of every document.  seq is the number of the event among those
\* the operation has emitted.
Call(w, d, event) ==
  [event |-> event, freeze |-> w.freeze[d], roots |-> w.roots[d],
   all_models |-> Values(w.all_models[d]),
   closure |-> UNION {references(w, r) : r \in w.roots[d]},
   attached |-> {m \in Model : w.document[m] = d},
   curdoc |-> w.curdoc, seq |-> Len(w.emitted) + 1,
   tables |-> [x \in Docs |-> Values(w.all_models[x])],
   documents |-> w.document]

\* Document.on_change(callback): a listener is registered once.
on_change(w, d, l) ==
  IF l \in w.callbacks[d] THEN w ELSE [w EXCEPT !.callbacks[d] = @ \cup {l}]

\* Document.remove_on_change(callback): del self._callbacks[callback]
remove_on_change(w, d, l) ==
  IF l \in w.callbacks[d] THEN [w EXCEPT !.callbacks[d] = @ \ {l}]
  ELSE Raise(w, "KeyError")

\* bokeh.io.set_curdoc
set_curdoc(w, doc) == [w EXCEPT !.curdoc = doc]

\* try: set_curdoc(self); f()  finally: set_curdoc(old_doc)
_with_self_as_curdoc(w, self, f(_)) ==
  LET old_doc == w.curdoc
  IN set_curdoc(f(set_curdoc(w, self)), old_doc)

RECURSIVE set_title(_, _, _)
RECURSIVE invoke_callbacks(_, _, _, _, _, _)

\* What the code of a callback does: it returns, raises, sets the title of a
\* document, or registers or removes a listener of a document.
act(w, b) ==
  IF b.do = "pass" THEN w
  ELSE IF b.do = "raise" THEN Raise(w, "Exception: raised by a callback")
  ELSE IF b.do = "title" THEN set_title(w, b.d, b.t)
  ELSE IF b.do = "on_change" THEN on_change(w, b.d, b.l)
  ELSE remove_on_change(w, b.d, b.l)

\* cb(event) for the listener l: it sees the document, and the first time
\* it does what its script says.
cb(w, l, d, event, seq) ==
  LET w1 == [w EXCEPT !.received[l] = Append(@, [Call(w, d, event) EXCEPT !.seq = seq])]
  IN IF l \in w.acted THEN w1
     ELSE act([w1 EXCEPT !.acted = @ \cup {l}], w.script[l])

\* Variant: every listener is called, and the exception of the first one
\* that raised is dropped.
RECURSIVE invoke_callbacks_all(_, _, _, _, _, _)
invoke_callbacks_all(w, d, event, seq, items, size) ==
  IF items = <<>> THEN w
  ELSE invoke_callbacks_all([cb(w, Head(items), d, event, seq) EXCEPT !.exc = Ok],
                            d, event, seq, Tail(items), size)

\* for cb in self._callbacks.values(): cb(event).  items are the listeners
\* still to be called and size the length of the dict when the loop began.
\* A view of a dict (Python 3) raises when the next value is asked for and
\* the dict has another length; its values are those of the dict when the
\* loop began as long as the length is the same, since a listener changes
\* the dict once at most.
invoke_callbacks(w, d, event, seq, items, size) ==
  IF w.exc # Ok THEN w
  ELSE IF w.py = 3 /\ Cardinality(w.callbacks[d]) # size
  THEN Raise(w, "RuntimeError: dictionary changed size during iteration")
  ELSE IF items = <<>> THEN w
  ELSE invoke_callbacks(cb(w, Head(items), d, event, seq), d, event, seq, Tail(items), size)

\* Variant: the listeners are called with the current document as it is.
trigger_without_curdoc(w, d, event) ==
  invoke_callbacks([w EXCEPT !.emitted = Append(@, Call(w, d, event))], d, event,
                   Len(w.emitted) + 1,
                   SelectSeq(w.order, LAMBDA l : l \in w.callbacks[d]),
                   Cardinality(w.callbacks[d]))

\* The event is emitted: every listener of d is called with it.
_trigger_on_change(w, d, event) ==
  LET seq == Len(w.emitted) + 1
      w1 == [w EXCEPT !.emitted = Append(@, Call(w, d, event))]
      items == SelectSeq(w.order, LAMBDA l : l \in w.callbacks[d])
      size == Cardinality(w.callbacks[d])
  IN _with_self_as_curdoc(w1, d, LAMBDA x : invoke_callbacks(x, d, event, seq, items, size))

\* Variant: the entry under the old name stays.
notify_without_remove(w, d, model, attr, old, new) ==
  LET dict2 == IF attr = "name" /\ new # None
               THEN add_value(w.by_name[d], new, model) ELSE w.by_name[d]
  IN _trigger_on_change([w EXCEPT !.by_name[d] = dict2], d,
                        ModelChangedEvent(d, model, attr, old, new))

\* wrapper(*args, **kwargs) of _wrap_with_self_as_curdoc(f), for the
\* callable f of the user code, which does b: invoke() runs f.
wrapper(w, doc, f, b) ==
  _with_self_as_curdoc(w, doc,
    LAMBDA x : act([x EXCEPT !.invoked = Append(@, [callback |-> f, curdoc |-> x.curdoc])], b))

_notify_change(w, d, model, attr, old, new) ==
  LET dict1 == IF attr = "name" /\ old # None
               THEN remove_value(w.by_name[d], old, model) ELSE w.by_name[d]
      dict2 == IF attr = "name" /\ new # None
               THEN add_value(dict1, new, model) ELSE dict1
      w1 == [w EXCEPT !.by_name[d] = dict2]
  IN _trigger_on_change(w1, d, ModelChangedEvent(d, model, attr, old, new))

\* Assigning a property of a model (Model capability): nothing when the value
\* is the one it has; a model owned by a document has the document recompute
\* its models when references are involved, and notifies it of the change.
setattr(w, m, attr, value) ==
  LET old == IF attr = "child" THEN w.child[m] ELSE w.name[m]
      w1 == IF attr = "child" THEN [w EXCEPT !.child[m] = value]
            ELSE [w EXCEPT !.name[m] = value]
      d == w.document[m]
      w2 == IF attr = "child" THEN _invalidate_all_models(w1, d) ELSE w1
  IN IF old = value THEN w
     ELSE IF d = None THEN w1
     ELSE _notify_change(w2, d, m, attr, old, value)

\* --------------------------------------------- Document: roots and title

get_model_by_name(w, d, n) ==
  get_one(w.by_name[d], n, "Found more than one model named")

\* Variant: the event is emitted whether the title differs or not.
set_title_always(w, d, t) ==
  IF t = None THEN Raise(w, "ValueError: Document title may not be None")
  ELSE _trigger_on_change([w EXCEPT !.title[d] = t], d, TitleChangedEvent(d, t))

set_title(w, d, t) ==
  IF t = None THEN Raise(w, "ValueError: Document title may not be None")
  ELSE IF w.title[d] # t
       THEN _trigger_on_change([w EXCEPT !.title[d] = t], d, TitleChangedEvent(d, t))
       ELSE w

\* Variant: a model that is a root already is added again.
add_root_unguarded(w, d, model) ==
  LET w1 == _push_all_models_freeze(w, d)
      w2 == [w1 EXCEPT !.roots[d] = @ \cup {model}]
      w3 == _pop_all_models_freeze(w2, d)
  IN _trigger_on_change(w3, d, RootAddedEvent(d, model))

add_root(w, d, model) ==
  IF model \in w.roots[d] THEN w
  ELSE LET w1 == _push_all_models_freeze(w, d)
           w2 == [w1 EXCEPT !.roots[d] = @ \cup {model}]
           w3 == _pop_all_models_freeze(w2, d)
       IN _trigger_on_change(w3, d, RootAddedEvent(d, model))

remove_root(w, d, model) ==
  IF model \notin w.roots[d] THEN w
  ELSE LET w1 == _push_all_models_freeze(w, d)
           w2 == [w1 EXCEPT !.roots[d] = @ \ {model}]
           w3 == _pop_all_models_freeze(w2, d)
       IN _trigger_on_change(w3, d, RootRemovedEvent(d, model))

\* The loop of clear(): while there is a root, remove the first one.  n is
\* the number of iterations left before the loop is taken not to terminate.
RECURSIVE clear_loop(_, _, _, _)
clear_loop(w, d, ord, n) ==
  IF w.exc # Ok \/ w.roots[d] = {} THEN w
  ELSE IF n = 0 THEN [w EXCEPT !.hung = TRUE]
  ELSE clear_loop(remove_root(w, d, First(w.roots[d], ord)), d, ord, n - 1)

\* Variant: the freeze of clear() is not popped.
clear_without_pop(w, d, ord) ==
  LET w1 == _push_all_models_freeze(w, d)
  IN clear_loop(w1, d, ord, Cardinality(w1.roots[d]))

clear(w, d, ord) ==
  LET w1 == _push_all_models_freeze(w, d)
      w2 == clear_loop(w1, d, ord, Cardinality(w1.roots[d]))
  IN _pop_all_models_freeze(w2, d)


\* The loop of _destructively_move: the roots are removed one by one and
\* appended to the list acc.  The result is the world and the list.
RECURSIVE harvest_roots(_, _, _, _, _)
harvest_roots(w, self, ord, n, acc) ==
  IF w.exc # Ok \/ w.roots[self] = {} THEN [w |-> w, roots |-> acc]
  ELSE IF n = 0 THEN [w |-> [w EXCEPT !.hung = TRUE], roots |-> acc]
  ELSE LET r == First(w.roots[self], ord) IN
       harvest_roots(remove_root(w, self, r), self, ord, n - 1, Append(acc, r))

\* for r in rs: d.add_root(r)
RECURSIVE add_roots(_, _, _)
add_roots(w, d, rs) ==
  IF rs = <<>> \/ w.exc # Ok THEN w
  ELSE add_roots(add_root(w, d, Head(rs)), d, Tail(rs))

\* Variant: each root is added to the destination as soon as it is removed.
RECURSIVE move_each(_, _, _, _, _)
move_each(w, self, dest_doc, ord, n) ==
  IF w.exc # Ok \/ w.roots[self] = {} \/ n = 0 THEN w
  ELSE LET r == First(w.roots[self], ord) IN
       move_each(add_root(remove_root(w, self, r), dest_doc, r), self, dest_doc, ord, n - 1)

move_interleaved(w, self, dest_doc, ord_dest, ord_self) ==
  IF dest_doc = self
  THEN Raise(w, "RuntimeError: Attempted to overwrite a document with itself")
  ELSE
    LET w1 == clear(w, dest_doc, ord_dest)
        w4 == move_each(w1, self, dest_doc, ord_self, Cardinality(w1.roots[self]))
    IN IF w1.exc # Ok \/ w1.hung THEN w1
       ELSE IF w4.exc # Ok THEN w4
       ELSE set_title(w4, dest_doc, w4.title[self])

\* Variant: the destination is not cleared.
move_without_clear(w, self, dest_doc, ord_dest, ord_self) ==
  IF dest_doc = self
  THEN Raise(w, "RuntimeError: Attempted to overwrite a document with itself")
  ELSE
    LET w2 == _push_all_models_freeze(w, self)
        h == harvest_roots(w2, self, ord_self, Cardinality(w2.roots[self]), <<>>)
        w3 == _pop_all_models_freeze(h.w, self)
        w4 == add_roots(w3, dest_doc, h.roots)
    IN IF w3.exc # Ok \/ w3.hung THEN w3
       ELSE IF w4.exc # Ok THEN w4
       ELSE set_title(w4, dest_doc, w4.title[self])

_destructively_move(w, self, dest_doc, ord_dest, ord_self) ==
  IF dest_doc = self
  THEN Raise(w, "RuntimeError: Attempted to overwrite a document with itself")
  ELSE
    LET w1 == clear(w, dest_doc, ord_dest)
        w2 == _push_all_models_freeze(w1, self)
        h == harvest_roots(w2, self, ord_self, Cardinality(w2.roots[self]), <<>>)
        w3 == _pop_all_models_freeze(h.w, self)
        w4 == add_roots(w3, dest_doc, h.roots)
    IN IF w1.exc # Ok \/ w1.hung THEN w1
       ELSE IF w3.exc # Ok \/ w3.hung THEN w3
       ELSE IF \E k \in DOMAIN h.roots : w3.document[h.roots[k]] # None
       THEN Raise(w3, "RuntimeError: Somehow we didn't detach")
       ELSE IF Values(w3.all_models[self]) # {}
       THEN Raise(w3, "RuntimeError: _all_models still had stuff in it")
       ELSE IF w4.exc # Ok THEN w4
       ELSE set_title(w4, dest_doc, w4.title[self])

\* ------------------------------------------------------- Document: JSON

\* Model.ref: the reference {id, type} of a model, which is its id here.
ref(m) == IdOf[m]

\* Model._to_json_like: the attributes; a model as a value is written as its ref.
_to_json_like(w, m) ==
  [child |-> IF w.child[m] = None THEN None ELSE ref(w.child[m]), name |-> w.name[m]]

\* references is a list of models; the result is the list of their records.
_references_json(w, refs) ==
  [k \in DOMAIN refs |-> [id |-> ref(refs[k]), attributes |-> _to_json_like(w, refs[k])]]

\* Variant: references holds the records of the roots alone.
to_json_roots_only(w, self, ord_roots, ord_refs) ==
  [title |-> w.title[self],
   roots |-> [root_ids |-> [k \in DOMAIN ord_roots |-> ref(ord_roots[k])],
              references |-> _references_json(w, ord_roots)]]

\* root_ids and references are written in the iteration order of _roots and
\* of _all_models.values().
to_json(w, self, ord_roots, ord_refs) ==
  [title |-> w.title[self],
   roots |-> [root_ids |-> [k \in DOMAIN ord_roots |-> ref(ord_roots[k])],
              references |-> _references_json(w, ord_refs)]]

\* The instances some document holds: its roots, its models, what they reach.
InUse(w) ==
  UNION {Values(w.all_models[d]) \cup UNION {references(w, r) : r \in w.roots[d]} : d \in Docs}

\* cls(id=obj_id, _block_events=True): a new instance with the id i, which is
\* an instance no document holds.
Fresh(w, i) == CHOOSE m \in Copies : IdOf[m] = i /\ m \notin InUse(w)

CanInstantiate(w) == \A i \in Ids : \E m \in Copies : IdOf[m] = i /\ m \notin InUse(w)

\* The result is the world with the new instances, which have the values a
\* constructor gives, and the dict references (instances): id -> instance.
_instantiate_references_json(w, references_json) ==
  LET ids == {references_json[k].id : k \in DOMAIN references_json}
      instances == [i \in Ids |-> IF i \in ids THEN Fresh(w, i) ELSE None]
      new == Values(instances)
  IN [w |-> [w EXCEPT !.child = [m \in Model |-> IF m \in new THEN None ELSE @[m]],
                      !.name = [m \in Model |-> IF m \in new THEN None ELSE @[m]],
                      !.document = [m \in Model |-> IF m \in new THEN None ELSE @[m]]],
      references |-> instances]

\* Property.from_json(value, models=instances) of a reference property
\* fails on an id that instances does not hold.
from_json_fails(value, instances) == value # None /\ instances[value] = None
prop_from_json(value, instances) == IF value = None THEN None ELSE instances[value]

\* Model.update(**attrs): each attribute is assigned.
update(w, m, attrs) ==
  LET w1 == IF "child" \in DOMAIN attrs THEN setattr(w, m, "child", attrs.child) ELSE w
  IN IF w1.exc = Ok /\ "name" \in DOMAIN attrs THEN setattr(w1, m, "name", attrs.name)
     ELSE w1

\* The records from the k-th on are initialized.
RECURSIVE _initialize_references_json(_, _, _, _)
_initialize_references_json(w, references_json, instances, k) ==
  IF w.exc # Ok \/ k > Len(references_json) THEN w
  ELSE LET obj == references_json[k]
           instance == instances[obj.id]
       IN IF from_json_fails(obj.attributes.child, instances)
          THEN Raise(w, "DeserializationError")
          ELSE _initialize_references_json(
                 update(w, instance,
                        [child |-> prop_from_json(obj.attributes.child, instances),
                         name |-> obj.attributes.name]),
                 references_json, instances, k + 1)

\* Document(): the document doc is the new document.
Document(w, doc) ==
  [w EXCEPT !.roots[doc] = {}, !.all_models[doc] = [i \in Ids |-> None],
            !.by_name[doc] = EmptyDict, !.title[doc] = DEFAULT_TITLE,
            !.freeze[doc] = 0, !.callbacks[doc] = {},
            !.session_callbacks[doc] = [f \in {} |-> None]]

\* for r in root_ids: doc.add_root(instances[r]), from the k-th id on.
RECURSIVE add_root_ids(_, _, _, _, _)
add_root_ids(w, doc, root_ids, instances, k) ==
  IF w.exc # Ok \/ k > Len(root_ids) THEN w
  ELSE IF instances[root_ids[k]] = None THEN Raise(w, "KeyError")
  ELSE add_root_ids(add_root(w, doc, instances[root_ids[k]]), doc, root_ids, instances, k + 1)

\* from_json(json): the new document is doc.
from_json(w, json, doc) ==
  LET references_json == json.roots.references
      i == _instantiate_references_json(w, references_json)
      w1 == _initialize_references_json(i.w, references_json, i.references, 1)
      w2 == Document(w1, doc)
      w3 == add_root_ids(w2, doc, json.roots.root_ids, i.references, 1)
  IN IF w1.exc # Ok THEN w1
     ELSE IF w3.exc # Ok THEN w3
     ELSE set_title(w3, doc, json.title)

\* replace_with_json(json): replacement is the document from_json makes, and
\* ord_self the iteration order of its roots.
replace_with_json(w, self, json, replacement, ord_dest, ord_self) ==
  LET w1 == from_json(w, json, replacement)
  IN IF w1.exc # Ok THEN w1
     ELSE _destructively_move(w1, replacement, self, ord_dest, ord_self)

\* ---------------------------------------------------- Document: patches

\* A value as serialize_json writes it: a model is written as its ref.
json_value(v) == IF v \in Model THEN ref(v) ELSE v

\* Variant: the model of a ModelChanged event is discarded in every case.
event_references_discard(w, event) ==
  IF event.kind = "ModelChanged" THEN collect_models(w, event.new) \ {event.model}
  ELSE IF event.kind = "RootAdded" THEN references(w, event.model)
  ELSE {}

\* The models an event adds to the references of a patch.
event_references(w, event) ==
  IF event.kind = "ModelChanged"
  THEN LET value == event.new
           value_refs == collect_models(w, value)
       IN IF event.model # value THEN value_refs \ {event.model} ELSE value_refs
  ELSE IF event.kind = "RootAdded" THEN references(w, event.model)
  ELSE {}

\* The set references of create_json_patch_string after all events.
patch_references(w, events) == UNION {event_references(w, events[k]) : k \in DOMAIN events}

json_event(event) ==
  CASE event.kind = "ModelChanged" ->
         [kind |-> "ModelChanged", model |-> ref(event.model), attr |-> event.attr,
          new |-> json_value(event.new)]
    [] event.kind = "RootAdded" -> [kind |-> "RootAdded", model |-> ref(event.model)]
    [] event.kind = "RootRemoved" -> [kind |-> "RootRemoved", model |-> ref(event.model)]
    [] event.kind = "TitleChanged" -> [kind |-> "TitleChanged", title |-> event.title]

\* The events of the kinds a patch has a record for.
Patched(events) ==
  SelectSeq(events, LAMBDA e : e.kind \in {"ModelChanged", "RootAdded", "RootRemoved",
                                            "TitleChanged"})

\* create_json_patch_string(events); ord is the iteration order of the set
\* references.  The result is the patch, with the exception raised if any.
create_json_patch_string(w, self, events, ord) ==
  IF \E k \in DOMAIN events : events[k].document # self
  THEN [exc |-> "ValueError: Cannot create a patch using events from a different document",
        events |-> <<>>, references |-> <<>>]
  ELSE [exc |-> Ok,
        events |-> [k \in DOMAIN Patched(events) |-> json_event(Patched(events)[k])],
        references |-> _references_json(w, ord)]

\* One event of a patch is applied.
apply_event(w, self, event_json, instances) ==
  IF event_json.kind = "ModelChanged"
  THEN LET patched_id == event_json.model
           patched_obj == w.all_models[self][patched_id]
           attr == event_json.attr
           value == event_json.new
       IN IF patched_obj = None
          THEN Raise(w, "RuntimeError: Cannot apply patch to a model which is not in the document")
          ELSE IF attr = "child"
          THEN IF from_json_fails(value, instances) THEN Raise(w, "DeserializationError")
               ELSE update(w, patched_obj, [child |-> prop_from_json(value, instances)])
          ELSE update(w, patched_obj, [name |-> value])
  ELSE IF event_json.kind = "RootAdded"
  THEN IF instances[event_json.model] = None THEN Raise(w, "KeyError")
       ELSE add_root(w, self, instances[event_json.model])
  ELSE IF event_json.kind = "RootRemoved"
  THEN IF instances[event_json.model] = None THEN Raise(w, "KeyError")
       ELSE remove_root(w, self, instances[event_json.model])
  ELSE IF event_json.kind = "TitleChanged"
  THEN set_title(w, self, event_json.title)
  ELSE Raise(w, "RuntimeError: Unknown patch event")

\* Variant: an event that fails is skipped.
RECURSIVE apply_events_swallowing(_, _, _, _, _)
apply_events_swallowing(w, self, events_json, instances, k) ==
  IF k > Len(events_json) THEN w
  ELSE LET w1 == apply_event(w, self, events_json[k], instances) IN
       apply_events_swallowing(IF w1.exc = Ok THEN w1 ELSE w, self, events_json,
                               instances, k + 1)

\* The events from the k-th on are applied, in the order of the list.
RECURSIVE apply_events(_, _, _, _, _)
apply_events(w, self, events_json, instances, k) ==
  IF w.exc # Ok \/ k > Len(events_json) THEN w
  ELSE apply_events(apply_event(w, self, events_json[k], instances), self, events_json,
                    instances, k + 1)

\* Variant: the new instances are not given up for the live ones.
patch_instances_new(w, self, patch, new_instances) ==
  LET live == w.all_models[self]
      event_ids == {patch.events[k].model :
                      k \in {j \in DOMAIN patch.events : "model" \in DOMAIN patch.events[j]}}
  IN [i \in Ids |-> IF new_instances[i] # None THEN new_instances[i]
                    ELSE IF i \in event_ids THEN live[i] ELSE None]

\* The dict references of apply_json_patch before the records are
\* initialized: the new instances, the live instance in place of a new one
\* when the document has the id, and the live instance of each event's model.
patch_instances(w, self, patch, new_instances) ==
  LET live == w.all_models[self]
      adopted == [i \in Ids |->
                    IF new_instances[i] # None /\ live[i] # None THEN live[i]
                    ELSE new_instances[i]]
      event_ids == {patch.events[k].model :
                      k \in {j \in DOMAIN patch.events : "model" \in DOMAIN patch.events[j]}}
  IN [i \in Ids |-> IF i \in event_ids /\ live[i] # None THEN live[i] ELSE adopted[i]]

\* Variant: a patch that fails leaves the document as it was.
apply_json_patch_atomic(w, self, patch) ==
  LET references_json == patch.references
      events_json == patch.events
      i == _instantiate_references_json(w, references_json)
      instances == patch_instances(i.w, self, patch, i.references)
      w1 == _initialize_references_json(i.w, references_json, instances, 1)
      w2 == apply_events(w1, self, events_json, instances, 1)
  IN IF w2.exc = Ok THEN w2 ELSE Raise(w, w2.exc)

apply_json_patch(w, self, patch) ==
  LET references_json == patch.references
      events_json == patch.events
      i == _instantiate_references_json(w, references_json)
      instances == patch_instances(i.w, self, patch, i.references)
      w1 == _initialize_references_json(i.w, references_json, instances, 1)
  IN apply_events(w1, self, events_json, instances, 1)

\* An instance no document holds is garbage: it is as a new one.
collect(w) ==
  LET live == InUse(w) \cup Orig IN
  [w EXCEPT !.child = [m \in Model |-> IF m \in live THEN @[m] ELSE None],
            !.name = [m \in Model |-> IF m \in live THEN @[m] ELSE None],
            !.document = [m \in Model |-> IF m \in live THEN @[m] ELSE None]]

\* ----------------------------------------------------------- the actions

Init ==
  /\ roots = [d \in Docs |-> {}]
  /\ all_models = [d \in Docs |-> [i \in Ids |-> None]]
  /\ by_name = [d \in Docs |-> EmptyDict]
  /\ title = [d \in Docs |-> DEFAULT_TITLE]
  /\ freeze = [d \in Docs |-> 0]
  /\ callbacks = [d \in Docs |-> {}]
  /\ child = [m \in Model |-> None]
  /\ name = [m \in Model |-> IF m \in {"A", "B"} THEN "p" ELSE None]
  /\ document = [m \in Model |-> None]
  /\ session_callbacks = [d \in Docs |-> [f \in {} |-> None]]
  /\ curdoc = None
  /\ phase = "build"
  /\ captured = <<>>
  /\ index = EmptyDict
  /\ receiver = {}
  /\ dispatched = [exc |-> Ok, calls |-> <<>>]

AddRootIn(ds, ms) == \E d \in ds, m \in ms : Commit(add_root(World, d, m))

RemoveRootIn(ds, ms) == \E d \in ds, m \in ms : Commit(remove_root(World, d, m))

SetTitleIn(ds) == \E d \in ds, t \in Titles \cup {None} : Commit(set_title(World, d, t))

SetChildIn(ms, vs) == \E m \in ms, v \in vs : Commit(setattr(World, m, "child", v))

AddRoot == phase = "build" /\ AddRootIn(UserDocs, Orig)

RemoveRoot == phase = "build" /\ RemoveRootIn(Docs, Orig)

Clear ==
  /\ phase = "build"
  /\ \E d \in Docs : \E ord \in Orders(roots[d]) : Commit(clear(World, d, ord))

SetTitle == phase = "build" /\ SetTitleIn(UserDocs)

SetChild == phase = "build" /\ SetChildIn(Orig, Orig \cup {None})

DestructivelyMove ==
  /\ phase = "build"
  /\ \E self \in Docs, dest \in Docs :
       \E ord_dest \in Orders(roots[dest]), ord_self \in Orders(roots[self]) :
         Commit(_destructively_move(World, self, dest, ord_dest, ord_self))

\* Listener L1 is for d1 and listener L2 for d2.
OnChange ==
  /\ phase = "build"
  /\ \E d \in Docs, l \in Listeners :
       /\ <<d, l>> \in {<<"d1", "L1">>, <<"d2", "L2">>}
       /\ Commit(on_change(World, d, l))

Next ==
  AddRoot \/ RemoveRoot \/ Clear \/ SetTitle \/ SetChild \/ DestructivelyMove \/ OnChange

Spec == Init /\ [][Next]_vars

\* ------------------------------------- a document replaced by its JSON

\* Nothing has been done with the document doc since it was constructed.
Pristine(w, doc) ==
  /\ w.roots[doc] = {} /\ Values(w.all_models[doc]) = {} /\ w.freeze[doc] = 0
  /\ w.title[doc] = DEFAULT_TITLE /\ w.callbacks[doc] = {}
  /\ DOMAIN w.session_callbacks[doc] = {}
  /\ \A m \in Model : w.document[m] # doc

\* The JSON of each document, in one order of its roots and of its models.
Jsons(w) ==
  {to_json(w, d, CHOOSE o \in Orders(w.roots[d]) : TRUE,
           CHOOSE o \in Orders(Values(w.all_models[d])) : TRUE) : d \in Docs}

\* d1.replace_with_json(json); the document from_json makes is d2.
ReplaceWithJson ==
  /\ phase = "build"
  /\ Pristine(World, "d2") /\ CanInstantiate(World)
  /\ \E json \in Jsons(World), ord_dest \in Orders(roots["d1"]) :
       \E ord_self \in Orders(from_json(World, json, "d2").roots["d2"]) :
         CommitAs(collect(replace_with_json(World, "d1", json, "d2", ord_dest, ord_self)),
                  "replaced", <<>>)

NextReplace == AddRoot \/ SetChild \/ DestructivelyMove \/ OnChange \/ ReplaceWithJson

SpecReplace == Init /\ [][NextReplace]_vars

\* -------------------------------------------------- a _MultiValuedDict

AddValue ==
  /\ \E k \in Names \cup {None}, v \in Orig \cup {None, SetValue} :
       index' = checked_add_value(index, k, v).dict
  /\ UNCHANGED <<roots, all_models, by_name, title, freeze, callbacks, child, name,
                 document, session_callbacks, curdoc, phase, captured, receiver,
                 dispatched>>

RemoveValue ==
  /\ \E k \in Names \cup {None}, v \in Orig \cup {None} :
       index' = checked_remove_value(index, k, v).dict
  /\ UNCHANGED <<roots, all_models, by_name, title, freeze, callbacks, child, name,
                 document, session_callbacks, curdoc, phase, captured, receiver,
                 dispatched>>

NextIndex == AddValue \/ RemoveValue

SpecIndex == Init /\ [][NextIndex]_vars

\* ------------------------------------------------- a receiver of events

\* The receiver is given a method, or loses one.
SetReceiver ==
  /\ \E m \in Methods : receiver' = (receiver \cup {m}) \/ receiver' = receiver \ {m}
  /\ UNCHANGED <<roots, all_models, by_name, title, freeze, callbacks, child, name,
                 document, session_callbacks, curdoc, phase, captured, index, dispatched>>

\* event.dispatch(receiver)
Dispatch ==
  /\ \E kind \in EventKinds : dispatched' = dispatch(kind, receiver)
  /\ UNCHANGED <<roots, all_models, by_name, title, freeze, callbacks, child, name,
                 document, session_callbacks, curdoc, phase, captured, index, receiver>>

NextDispatch == SetReceiver \/ Dispatch

SpecDispatch == Init /\ [][NextDispatch]_vars

\* ------------------------------------------------- a document and names

SetName ==
  /\ phase = "build"
  /\ \E m \in Orig, v \in Names \cup {None} : Commit(setattr(World, m, "name", v))

NextNames == AddRoot \/ RemoveRoot \/ SetChild \/ SetName

SpecNames == Init /\ [][NextNames]_vars

\* ------------------------------------------- Document: session callbacks

\* dict[k] = v and dict.pop(k) of a dict that has k.
setitem(dict, k, v) == [x \in DOMAIN dict \cup {k} |-> IF x = k THEN v ELSE dict[x]]

popitem(dict, k) == [x \in DOMAIN dict \ {k} |-> dict[x]]

\* The handles of all the tables.
Handles(w) ==
  UNION {{w.session_callbacks[d][f] : f \in DOMAIN w.session_callbacks[d]} : d \in Docs}

\* str(uuid.uuid4()): an id no handle has.
uuid4(w) == CHOOSE n \in 1..MaxHandles :
              /\ \A h \in Handles(w) : h._id # n
              /\ \A k \in 1..(n - 1) : \E h \in Handles(w) : h._id = k

CanAddHandle(w) == Cardinality(Handles(w)) < MaxHandles

\* SessionCallback.__init__ (PeriodicCallback, TimeoutCallback): the fields
\* of a handle.  callback is the wrapper of the callable of the user code.
SessionCallback(w, kind, document_, callback) ==
  [kind |-> kind, _id |-> uuid4(w), _document |-> document_, _callback |-> callback]

\* The body that add_periodic_callback and add_timeout_callback share:
\* self._session_callbacks[callback] = cb, then the event.
add_session_callback(w, self, kind, callback) ==
  LET h == SessionCallback(w, kind, self, callback)
      w1 == [w EXCEPT !.session_callbacks[self] = setitem(@, callback, h)]
  IN _trigger_on_change(w1, self, SessionCallbackAdded(self, h))

add_periodic_callback(w, self, callback) == add_session_callback(w, self, "periodic", callback)

add_timeout_callback(w, self, callback) == add_session_callback(w, self, "timeout", callback)

\* Variant: a callback that is not registered is removed in silence.
remove_session_callback_silent(w, self, callback) ==
  IF callback \notin DOMAIN w.session_callbacks[self] THEN w
  ELSE _trigger_on_change([w EXCEPT !.session_callbacks[self] = popitem(@, callback)], self,
                          SessionCallbackRemoved(self, w.session_callbacks[self][callback]))

\* cb = self._session_callbacks.pop(callback), which raises KeyError for a
\* key the dict does not have.
_remove_session_callback(w, self, callback) ==
  IF callback \notin DOMAIN w.session_callbacks[self]
  THEN Raise(w, "KeyError")
  ELSE LET h == w.session_callbacks[self][callback]
           w1 == [w EXCEPT !.session_callbacks[self] = popitem(@, callback)]
       IN _trigger_on_change(w1, self, SessionCallbackRemoved(self, h))

remove_periodic_callback(w, self, callback) == _remove_session_callback(w, self, callback)

remove_timeout_callback(w, self, callback) == _remove_session_callback(w, self, callback)

\* SessionCallback.remove(): self.document._remove_session_callback(self).
\* The attributes of a handle are those __init__ assigns and the properties
\* id and callback (and period or timeout): reading another one raises.
remove(w, handle) ==
  IF "document" \in DOMAIN handle \cup {"id", "callback", "period", "timeout"}
  THEN _remove_session_callback(w, handle.document, handle)
  ELSE Raise(w, "AttributeError: object has no attribute 'document'")

\* --------------------------------------------- documents and callbacks

\* What a callback may do.
Behaviours ==
  {Pass, [do |-> "raise"]}
    \cup {[do |-> "title", d |-> d, t |-> t] : d \in Docs, t \in Titles}
    \cup {[do |-> "on_change", d |-> d, l |-> l] : d \in Docs, l \in Listeners}
    \cup {[do |-> "remove_on_change", d |-> d, l |-> l] : d \in Docs, l \in Listeners}

\* The world with listeners that do something, an iteration order of
\* _callbacks and a version of Python.
With(w, script, order, py) == [w EXCEPT !.script = script, !.order = order, !.py = py]

Scripts == [Listeners -> Behaviours]

Listen ==
  /\ phase = "build"
  /\ \E d \in Docs, l \in Listeners : Commit(on_change(World, d, l))

Unlisten ==
  /\ phase = "build"
  /\ \E d \in Docs, l \in Listeners : Commit(remove_on_change(World, d, l))

SetCurdoc ==
  /\ phase = "build"
  /\ \E doc \in Docs \cup {None} : Commit(set_curdoc(World, doc))

\* The title is set while the listeners do something.
SetTitleListened ==
  /\ phase = "build"
  /\ \E script \in Scripts, order \in Orders(Listeners), py \in {2, 3} :
       \E d \in Docs, t \in Titles : Commit(set_title(With(World, script, order, py), d, t))

\* The session calls a wrapped session callback (the listeners only look).
CallWrapped ==
  /\ phase = "build"
  /\ \E d \in Docs, f \in UserCallbacks, b \in Behaviours : Commit(wrapper(World, d, f, b))

NextListeners == Listen \/ Unlisten \/ SetCurdoc \/ SetTitleListened \/ CallWrapped

SpecListeners == Init /\ [][NextListeners]_vars

\* --------------------------------------- a document and session callbacks

AddPeriodicCallback ==
  /\ phase = "build" /\ CanAddHandle(World)
  /\ \E d \in UserDocs, f \in UserCallbacks : Commit(add_periodic_callback(World, d, f))

AddTimeoutCallback ==
  /\ phase = "build" /\ CanAddHandle(World)
  /\ \E d \in UserDocs, f \in UserCallbacks : Commit(add_timeout_callback(World, d, f))

RemovePeriodicCallback ==
  /\ phase = "build"
  /\ \E d \in UserDocs, f \in UserCallbacks : Commit(remove_periodic_callback(World, d, f))

RemoveTimeoutCallback ==
  /\ phase = "build"
  /\ \E d \in UserDocs, f \in UserCallbacks : Commit(remove_timeout_callback(World, d, f))

\* handle.remove() for a handle of a table.
HandleRemove ==
  /\ phase = "build"
  /\ \E h \in Handles(World) : Commit(remove(World, h))

NextSession ==
  \/ AddPeriodicCallback \/ AddTimeoutCallback \/ RemovePeriodicCallback
  \/ RemoveTimeoutCallback \/ HandleRemove \/ Listen

SpecSession == Init /\ [][NextSession]_vars

\* ------------------------------------------- a document and its replica

\* d1 is built of the models BuildModels.
BuildAddRoot == phase = "build" /\ AddRootIn(UserDocs, BuildModels)

BuildSetChild == phase = "build" /\ SetChildIn(BuildModels, BuildModels \cup {None})

\* The copy is made when d1 is built of the models BuildModels alone and
\* nothing else has been done: d2 is as it was constructed.
Built ==
  /\ \A d \in Docs : callbacks[d] = {} /\ title[d] = DEFAULT_TITLE
  /\ roots["d2"] = {} /\ Values(all_models["d2"]) = {}
  /\ roots["d1"] \subseteq BuildModels
  /\ \A m \in BuildModels : child[m] \in BuildModels \cup {None}
  /\ \A m \in Model \ BuildModels : child[m] = None

\* d2 := Document.from_json(d1.to_json())
Replicate ==
  /\ phase = "build"
  /\ Built
  /\ \E ord_roots \in Orders(roots["d1"]), ord_refs \in Orders(Values(all_models["d1"])) :
       CommitAs(from_json(World, to_json(World, "d1", ord_roots, ord_refs), "d2"),
                "synced", <<>>)

\* The user code changes d1, and its events are captured.
CaptureAddRoot == phase = "synced" /\ AddRootIn(UserDocs, Orig)

CaptureRemoveRoot == phase = "synced" /\ RemoveRootIn(UserDocs, Orig)

CaptureSetTitle == phase = "synced" /\ SetTitleIn(UserDocs)

CaptureSetChild == phase = "synced" /\ SetChildIn(Orig, Orig \cup {None})

\* d2.apply_json_patch(d1.create_json_patch(captured))
ApplyPatch ==
  /\ phase = "synced"
  /\ captured # <<>>
  /\ CanInstantiate(World)
  /\ \E ord \in Orders(patch_references(World, captured)) :
       LET patch == create_json_patch_string(World, "d1", captured, ord)
           w == collect(apply_json_patch(World, "d2", patch))
       IN CommitAs(w, IF w.exc = Ok THEN "patched" ELSE "failed", <<>>)

NextPatch ==
  \/ BuildAddRoot \/ BuildSetChild \/ Replicate
  \/ CaptureAddRoot \/ CaptureRemoveRoot \/ CaptureSetTitle \/ CaptureSetChild
  \/ ApplyPatch

SpecPatch == Init /\ [][NextPatch]_vars

\* Records a patch of create_json_patch_string does not have: an event of a
\* kind that is not known, and a change of the name of the model of an id.
ForgedEvents ==
  {[kind |-> "Bogus"]} \cup
  {[kind |-> "ModelChanged", model |-> i, attr |-> "name", new |-> "q"] : i \in Ids}

\* The patch with the event e put in as its k-th event.
Forge(patch, k, e) ==
  [patch EXCEPT !.events = SubSeq(@, 1, k - 1) \o <<e>> \o SubSeq(@, k, Len(@))]

\* The patches of the captured events with one forged event.
ForgedPatches(w) ==
  LET ord == CHOOSE o \in Orders(patch_references(w, captured)) : TRUE
      patch == create_json_patch_string(w, "d1", captured, ord)
  IN {Forge(patch, k, e) : k \in 1..(Len(patch.events) + 1), e \in ForgedEvents}

\* d2.apply_json_patch(patch) for a patch that was tampered with.
ApplyForgedPatch ==
  /\ phase = "synced"
  /\ CanInstantiate(World)
  /\ \E patch \in ForgedPatches(World) :
       LET w == collect(apply_json_patch(World, "d2", patch))
       IN CommitAs(w, IF w.exc = Ok THEN "patched" ELSE "failed", <<>>)

\* d1 is built of the model A alone, and the user code changes A and C.
ForgeBuild == phase = "build" /\ AddRootIn(UserDocs, {"A"})

ForgeAddRoot == phase = "synced" /\ AddRootIn(UserDocs, {"A", "C"})

ForgeRemoveRoot == phase = "synced" /\ RemoveRootIn(UserDocs, {"A", "C"})

ForgeSetChild == phase = "synced" /\ SetChildIn({"A", "C"}, {"A", "C", None})

NextForged ==
  \/ ForgeBuild \/ Replicate
  \/ ForgeAddRoot \/ ForgeRemoveRoot \/ ForgeSetChild \/ CaptureSetTitle
  \/ ApplyPatch \/ ApplyForgedPatch

SpecForged == Init /\ [][NextForged]_vars

\* Both: a document is built, moved, copied and its copy patched.  d2 is
\* made a copy of d1 only while it is as it was constructed.
NextAll == Next \/ NextPatch

SpecAll == Init /\ [][NextAll]_vars

\* ------------------------------------------- listeners that may raise

\* Each listener only looks or raises.
RaiseScripts == [Listeners -> {Pass, [do |-> "raise"]}]

\* The worlds of the state with listeners that may raise, in the two
\* iteration orders of _callbacks.
Raising == {With(World, script, order, 3) : script \in RaiseScripts, order \in Orders(Listeners)}

RaisingAddRoot ==
  phase = "build" /\ \E w \in Raising, m \in Orig : Commit(add_root(w, "d1", m))

RaisingRemoveRoot ==
  phase = "build" /\ \E w \in Raising, m \in Orig : Commit(remove_root(w, "d1", m))

RaisingClear ==
  phase = "build" /\ \E w \in Raising, ord \in Orders(roots["d1"]) : Commit(clear(w, "d1", ord))

RaisingSetTitle ==
  phase = "build" /\ \E w \in Raising, t \in Titles : Commit(set_title(w, "d1", t))

RaisingAddCallback ==
  /\ phase = "build" /\ CanAddHandle(World)
  /\ \E w \in Raising : Commit(add_periodic_callback(w, "d1", "f"))

RaisingRemoveCallback ==
  phase = "build" /\ \E w \in Raising : Commit(remove_periodic_callback(w, "d1", "f"))

ListenD1 == phase = "build" /\ \E l \in Listeners : Commit(on_change(World, "d1", l))

NextRaising ==
  \/ ListenD1 \/ BuildSetChild \/ RaisingAddRoot \/ RaisingRemoveRoot \/ RaisingClear \/ RaisingSetTitle
  \/ RaisingAddCallback \/ RaisingRemoveCallback

SpecRaising == Init /\ [][NextRaising]_vars

\* ------------------------------------------------------------ the claims

\* The models the roots of a document reach.
Closure(w, d) == UNION {references(w, r) : r \in w.roots[d]}

\* No document reaches two instances of one id.
UniqueIds(w) ==
  \A d \in Docs : \A m \in Closure(w, d), n \in Closure(w, d) : IdOf[m] = IdOf[n] => m = n

\* The worlds the operations of a document end in, from the current state,
\* for every argument.  A call that attaches a model of another document, or
\* that gives a document an instance and its copy, which has the same id, is
\* not a call the Model capability allows: a model has one document at most,
\* and its id is globally unique.
Allowed(ws) == {w \in ws : ~w.foreign /\ UniqueIds(w)}

AddRootOutcomes == Allowed({add_root(World, d, m) : d \in Docs, m \in Orig})

RemoveRootOutcomes == Allowed({remove_root(World, d, m) : d \in Docs, m \in Orig})

ClearOutcomes ==
  Allowed(UNION {{clear(World, d, ord) : ord \in Orders(roots[d])} : d \in Docs})

MoveOutcomes ==
  Allowed(UNION {{_destructively_move(World, pair[1], pair[2], od, os) :
                    od \in Orders(roots[pair[2]]), os \in Orders(roots[pair[1]])} :
                 pair \in Docs \X Docs})

SetTitleOutcomes == Allowed({set_title(World, d, t) : d \in Docs, t \in Titles \cup {None}})

SetChildOutcomes ==
  Allowed({setattr(World, m, "child", v) : m \in Orig, v \in Orig \cup {None}})

\* The patch of the captured events, applied to the copy d2.
PatchOutcomes ==
  IF phase = "synced" /\ CanInstantiate(World)
  THEN {apply_json_patch(World, "d2", create_json_patch_string(World, "d1", captured, ord)) :
          ord \in Orders(patch_references(World, captured))}
  ELSE {}

Outcomes ==
  AddRootOutcomes \cup RemoveRootOutcomes \cup ClearOutcomes \cup MoveOutcomes
    \cup SetTitleOutcomes \cup SetChildOutcomes \cup PatchOutcomes

Closed(w) ==
  \A d \in Docs : w.freeze[d] = 0 => Values(w.all_models[d]) = Closure(w, d)

\* C1: whenever the freeze counter of a document is zero, between two
\* operations, when an operation has ended and when a listener is called in
\* the middle of one, _all_models holds exactly the models the roots reach.
C1_ClosureInvariant ==
  /\ Closed(World)
  /\ \A w \in Outcomes :
       /\ Closed(w)
       /\ \A k \in DOMAIN w.emitted :
            w.emitted[k].freeze = 0 => w.emitted[k].all_models = w.emitted[k].closure

\* C1 witness: a reference of a model that d1 owns is changed, which brings
\* a model into d1 and takes one out of it.
C1_Witness ==
  \E m \in Orig, v \in Orig :
    LET w == setattr(World, m, "child", v) IN
    /\ ~w.foreign
    /\ document[m] = "d1" /\ freeze["d1"] = 0
    /\ Values(w.all_models["d1"]) \ Values(all_models["d1"]) # {}
    /\ Values(all_models["d1"]) \ Values(w.all_models["d1"]) # {}

Attached(w) ==
  \A d \in Docs :
    w.freeze[d] = 0 => {m \in Model : w.document[m] = d} = Values(w.all_models[d])

\* C2: whenever the freeze counter of a document is zero, the models whose
\* document it is are the models in _all_models.  After remove_root, clear or
\* a change of a reference, a model of the document that no root reaches any
\* more has no document, and one that a root still reaches has kept it.
C2_AttachmentInvariant ==
  /\ Attached(World)
  /\ \A w \in Outcomes :
       /\ Attached(w)
       /\ \A k \in DOMAIN w.emitted :
            w.emitted[k].freeze = 0 => w.emitted[k].attached = w.emitted[k].all_models
  /\ \A w \in RemoveRootOutcomes \cup ClearOutcomes \cup SetChildOutcomes :
       \A d \in Docs : \A m \in Values(all_models[d]) :
         w.document[m] = IF m \in Closure(w, d) THEN d ELSE None

\* C2 witness: a root is removed and loses its document, while a model it
\* refers to keeps it, being reached from another root.
C2_Witness ==
  \E d \in Docs : \E m \in roots[d] :
    LET w == remove_root(World, d, m) IN
    /\ w.document[m] = None
    /\ \E x \in references(World, m) : x # m /\ w.document[x] = d /\ x \notin w.roots[d]

\* C3: the freeze counter is never negative, it is zero when an operation
\* has returned or raised, and it is zero whenever a listener is called.
C3_FreezeZeroWhenObserved ==
  /\ \A d \in Docs : freeze[d] = 0
  /\ \A w \in Outcomes :
       /\ \A d \in Docs : w.freeze[d] = 0
       /\ \A l \in Listeners : \A k \in DOMAIN w.received[l] : w.received[l][k].freeze = 0

\* C4: add_root of a root and remove_root of a model that is no root change
\* nothing and emit nothing, and a second add_root of the same model leaves
\* the state and the events of the first.
C4_RootIdempotence ==
  \A d \in Docs, m \in Orig :
    /\ m \in roots[d] => add_root(World, d, m) = World
    /\ m \notin roots[d] => remove_root(World, d, m) = World
    /\ LET w1 == add_root(World, d, m) IN ~w1.foreign => add_root(w1, d, m) = w1

\* C4 witness: a model that is no root of d1, which has a listener, is added:
\* there is one event, and the model is a root.
C4_Witness ==
  \E m \in Orig :
    LET w1 == add_root(World, "d1", m) IN
    /\ m \notin roots["d1"] /\ callbacks["d1"] # {} /\ roots["d1"] # {}
    /\ ~w1.foreign /\ m \in w1.roots["d1"] /\ Len(w1.emitted) = 1

\* C5: the title setter emits one TitleChanged event with the new title when
\* the title differs from the stored one and only then; the title None
\* raises, and leaves the title and emits nothing; the title is never None.
C5_TitleSetter ==
  \A d \in Docs :
    /\ title[d] # None
    /\ \A t \in Titles \cup {None} :
         LET w == set_title(World, d, t) IN
         /\ t = None => w.exc # Ok /\ [w EXCEPT !.exc = Ok] = World
         /\ t = title[d] => w = World
         /\ (t # None /\ t # title[d]) =>
              /\ w.exc = Ok /\ w.title[d] = t
              /\ Len(w.emitted) = 1
              /\ w.emitted[1].event = [kind |-> "TitleChanged", document |-> d, title |-> t]
              /\ \A l \in callbacks[d] :
                   Len(w.received[l]) = 1 /\ w.received[l][1].event = w.emitted[1].event

\* C5 witness: the title of d1, which has a listener, has been changed.
C5_Witness == title["d1"] = "X" /\ callbacks["d1"] # {}

\* C9: a move from a document to another one leaves the source without
\* roots and models, gives the destination the roots of the source and no
\* others, their closure as its models, all attached to it, and the title of
\* the source; a move of a document to itself raises and changes nothing.
C9_DestructiveMove ==
  \A self \in Docs, dest \in Docs :
    \A ord_dest \in Orders(roots[dest]), ord_self \in Orders(roots[self]) :
      LET w == _destructively_move(World, self, dest, ord_dest, ord_self) IN
      IF self = dest THEN w.exc # Ok /\ [w EXCEPT !.exc = Ok] = World
      ELSE /\ w.exc = Ok /\ ~w.hung /\ ~w.foreign
           /\ w.roots[self] = {} /\ Values(w.all_models[self]) = {}
           /\ \A m \in Values(all_models[self]) : w.document[m] # self
           /\ w.roots[dest] = roots[self]
           /\ Values(w.all_models[dest]) = Closure(w, dest)
           /\ \A m \in Model : w.document[m] = dest <=> m \in Closure(w, dest)
           /\ w.title[dest] = title[self]

\* C9 witness: both documents have roots, the source reaches a model that is
\* no root, and the titles differ.
C9_Witness ==
  /\ roots["d1"] # {} /\ roots["d2"] # {} /\ title["d1"] # title["d2"]
  /\ Values(all_models["d1"]) # roots["d1"]

\* C10: clear() ends, within one iteration for each root; then the document
\* has no roots, no models and no names, its models have no document, the
\* freeze counter is zero, the title is the same, and each root that was
\* there got one RootRemoved event (and there is no other event).
C10_Clear ==
  \A d \in Docs : \A ord \in Orders(roots[d]) :
    LET w == clear(World, d, ord) IN
    /\ ~w.hung /\ w.exc = Ok
    /\ w.roots[d] = {} /\ Values(w.all_models[d]) = {} /\ w.by_name[d] = EmptyDict
    /\ \A m \in Values(all_models[d]) : w.document[m] = None
    /\ w.freeze[d] = 0
    /\ w.title = title
    /\ Len(w.emitted) = Cardinality(roots[d])
    /\ \A r \in roots[d] :
         \E k \in DOMAIN w.emitted :
           w.emitted[k].event = [kind |-> "RootRemoved", document |-> d, model |-> r]

\* C10 witness: a document with a listener, two roots, a model that is no
\* root and two models of one name.
C10_Witness ==
  \E d \in Docs :
    /\ Cardinality(roots[d]) = 2 /\ Cardinality(Values(all_models[d])) = 3
    /\ by_name[d]["p"].t = "set" /\ callbacks[d] # {}

\* The documents d and e of the world w have the same root ids, title, ids
\* of models, and reference edges between the ids.
IdOrNone(v) == IF v = None THEN None ELSE IdOf[v]

Same(w, d, e) ==
  /\ {IdOf[r] : r \in w.roots[d]} = {IdOf[r] : r \in w.roots[e]}
  /\ w.title[d] = w.title[e]
  /\ \A i \in Ids :
       /\ w.all_models[d][i] = None <=> w.all_models[e][i] = None
       /\ w.all_models[d][i] # None /\ w.all_models[e][i] # None =>
            IdOrNone(w.child[w.all_models[d][i]]) = IdOrNone(w.child[w.all_models[e][i]])

\* from_json(to_json(d1)), where the new document is d2, in every order in
\* which to_json may write the roots and the models.
RoundTrips ==
  IF roots["d2"] = {} /\ Values(all_models["d2"]) = {} /\ CanInstantiate(World)
  THEN UNION {{from_json(World, to_json(World, "d1", ord_roots, ord_refs), "d2") :
                 ord_refs \in Orders(Values(all_models["d1"]))} :
              ord_roots \in Orders(roots["d1"])}
  ELSE {}

\* C6: from_json(to_json(d)) does not raise and is a document of new
\* instances with the root ids, the title, the ids of models and the
\* reference edges (by id) of d, whatever cycles and shared models d has.
C6_JsonRoundTrip ==
  /\ \A w \in RoundTrips :
       /\ w.exc = Ok
       /\ Same(w, "d1", "d2")
       /\ Values(w.all_models["d2"]) \cap Values(w.all_models["d1"]) = {}
       /\ Closed(w) /\ Attached(w)
  /\ phase = "synced" /\ captured = <<>> => Same(World, "d1", "d2")

\* C6 witness: d1 has another title, two roots and a third model, which both
\* roots refer to and which refers to itself; the copy has three models.
C6_Witness ==
  /\ title["d1"] = "X" /\ Cardinality(roots["d1"]) = 2
  /\ \E m \in Values(all_models["d1"]) \ roots["d1"] :
       child[m] = m /\ \A r \in roots["d1"] : child[r] = m
  /\ \E w \in RoundTrips : Cardinality(Values(w.all_models["d2"])) = 3

\* C7: d2 is from_json(to_json(d1)); after any mutations of d1, whose events
\* were captured in order, applying the patch of these events to d2 does not
\* raise and leaves d2 with the root ids, title, ids of models and reference
\* edges of d1.
C7_PatchReplication ==
  \A w \in PatchOutcomes : w.exc = Ok /\ Same(w, "d1", "d2")

\* The ids of the records of the references block of a patch.
RecordIds(patch) == {patch.references[k].id : k \in DOMAIN patch.references}

\* What an event has to bring into the references block.
Contribution(e) ==
  CASE e.kind = "RootAdded" -> references(World, e.model)
    [] e.kind = "ModelChanged" ->
         {m \in collect_models(World, e.new) : m # e.model \/ e.new = e.model}
    [] OTHER -> {}

\* C8: the references block of a patch has one record for every model in
\* references() of the model of a RootAdded event, and for every model of
\* collect_models(new) of a ModelChanged event but the model of the event
\* (which stays when it is new itself), and no record that no event of
\* these two kinds brings in.
C8_PatchSelfSufficient ==
  phase = "synced" =>
    \A ord \in Orders(patch_references(World, captured)) :
      LET patch == create_json_patch_string(World, "d1", captured, ord) IN
      /\ patch.exc = Ok
      /\ \A k \in DOMAIN captured :
           \A m \in Contribution(captured[k]) : IdOf[m] \in RecordIds(patch)
      /\ \A i \in RecordIds(patch) :
           \E k \in DOMAIN captured : \E m \in Contribution(captured[k]) : IdOf[m] = i
      /\ Len(patch.references) = Cardinality(RecordIds(patch))

\* C8 witness: of two captured ModelChanged events, one has its own model as
\* the new value, and the other a new value that refers back to the model of
\* the event; the patch has a record for the first and none for the second.
C8_Witness ==
  /\ phase = "synced" /\ Len(captured) = 2
  /\ \E j \in DOMAIN captured, k \in DOMAIN captured :
       /\ captured[j].kind = "ModelChanged" /\ captured[j].new = captured[j].model
       /\ captured[k].kind = "ModelChanged" /\ captured[k].new \in Model
       /\ captured[k].new # captured[k].model
       /\ captured[k].model \in collect_models(World, captured[k].new)
       /\ \E ord \in Orders(patch_references(World, captured)) :
            LET ids == RecordIds(create_json_patch_string(World, "d1", captured, ord)) IN
            IdOf[captured[j].model] \in ids /\ IdOf[captured[k].model] \notin ids

\* The models of the document d that have the name n.
Named(w, d, n) == {m \in Values(w.all_models[d]) : w.name[m] = n}

\* C11: with the freeze counter at zero, get_all(n) of the name index is
\* the set of the models of _all_models whose name is n now, and
\* get_model_by_name(n) returns the model when there is one of them, None
\* when there is none, and raises when there are two or more.
C11_NameIndexAgrees ==
  \A d \in Docs : freeze[d] = 0 =>
    \A n \in Names :
      LET found == get_model_by_name(World, d, n) IN
      /\ get_all(by_name[d], n) = Named(World, d, n)
      /\ Cardinality(Named(World, d, n)) = 1 =>
           found.exc = Ok /\ found.value \in Named(World, d, n)
      /\ Named(World, d, n) = {} => found.exc = Ok /\ found.value = None
      /\ Cardinality(Named(World, d, n)) >= 2 => found.exc # Ok

\* C11 witness: of two models of d1 that had the name p, one has got the
\* name q since: the entry of p is a set of one, and three models have three
\* kinds of entry (C has the name p now, too, or none).
C11_Witness ==
  /\ by_name["d1"]["p"].t = "set" /\ Cardinality(by_name["d1"]["p"].s) = 1
  /\ by_name["d1"]["q"].t = "one"
  /\ Cardinality(Values(all_models["d1"])) = 3

\* C12: every listener gets the events of an operation in the order in
\* which they were emitted, also when a listener changes a document.
C12_EventOrder ==
  \A script \in Scripts, order \in Orders(Listeners), py \in {2, 3} :
    \A d \in Docs, t \in Titles :
      LET w == set_title(With(World, script, order, py), d, t) IN
      \A l \in Listeners : \A i, j \in DOMAIN w.received[l] :
        i < j => w.received[l][i].seq < w.received[l][j].seq

\* The listeners only register and remove listeners that can be registered
\* and removed.
Registering(script) ==
  \A l \in Listeners :
    \/ script[l] = Pass
    \/ script[l].do = "on_change"
    \/ script[l].do = "remove_on_change" /\ script[l].l \in callbacks[script[l].d]

\* C14: every listener registered when an event is triggered is called once
\* with the event, and no other is; a listener that registers or removes
\* listeners does not make the dispatch fail (unless it fails itself, by
\* removing a listener another one has removed before).
C14_DispatchSnapshot ==
  \A script \in {x \in Scripts : Registering(x)}, order \in Orders(Listeners), py \in {2, 3} :
    \A d \in Docs : \A t \in Titles \ {title[d]} :
      LET w == set_title(With(World, script, order, py), d, t) IN
      \/ w.exc = "KeyError"
      \/ /\ w.exc = Ok
         /\ \A l \in Listeners : Len(w.received[l]) = IF l \in callbacks[d] THEN 1 ELSE 0

\* Every listener was called with its document as the current document.
CurdocInCalls(w) ==
  \A l \in Listeners : \A k \in DOMAIN w.received[l] :
    w.received[l][k].curdoc = w.received[l][k].event.document

\* C15: a listener is called, and a wrapped session callback runs, with the
\* document as the current document, also when the call is made from a
\* callback of another document; when the operation ends, by a return or
\* by an exception, the current document is what it was before.
C15_CurdocScoping ==
  \A script \in Scripts, order \in Orders(Listeners), py \in {2, 3} : \A d \in Docs :
    /\ \A t \in Titles :
         LET w == set_title(With(World, script, order, py), d, t) IN
         w.curdoc = curdoc /\ CurdocInCalls(w)
    /\ \A b \in {x \in Behaviours : x.do \in {"pass", "raise", "title"}} :
         LET w == wrapper(With(World, script, order, py), d, "f", b) IN
         /\ w.curdoc = curdoc /\ CurdocInCalls(w)
         /\ Len(w.invoked) = 1 /\ w.invoked[1].curdoc = d

\* C15 witness: the current document is d2; a listener of d1 sets the title
\* of d2, of which the other listener is one, and then a listener raises:
\* both were called, each with its document as the current one.
C15_Witness ==
  /\ curdoc = "d2"
  /\ \E script \in Scripts : \E t \in Titles :
       LET w == set_title(With(World, script, <<"L1", "L2">>, 3), "d1", t) IN
       /\ w.exc # Ok /\ w.curdoc = "d2"
       /\ \E l \in Listeners, m \in Listeners :
            /\ Len(w.received[l]) >= 1 /\ w.received[l][1].curdoc = "d1"
            /\ Len(w.received[m]) >= 1 /\ w.received[m][1].curdoc = "d2"

\* What a listener sees when it gets a RootAdded or RootRemoved event: the
\* root set is the new one, _all_models is its closure, and the models of
\* _all_models, and no others, have the document.
RootEventSeen(c) ==
  /\ c.event.kind = "RootAdded" => c.event.model \in c.roots
  /\ c.event.kind = "RootRemoved" => c.event.model \notin c.roots
  /\ c.all_models = c.closure
  /\ c.attached = c.all_models

RootEventsSeen(w) ==
  \A l \in Listeners : \A k \in DOMAIN w.received[l] :
    w.received[l][k].event.kind \in {"RootAdded", "RootRemoved"} =>
      RootEventSeen(w.received[l][k])

\* C13: add_root of a model that is no root and remove_root of a root emit
\* one event, RootAdded or RootRemoved of the model, and when a listener
\* gets it _all_models is the closure of the new root set and the models
\* have been attached and detached; so it is for the calls clear() and
\* _destructively_move make, too.
C13_RootEventTiming ==
  /\ \A d \in Docs, m \in Orig :
       /\ m \notin roots[d] =>
            LET w == add_root(World, d, m) IN
            ~w.foreign =>
              /\ Len(w.emitted) = 1
              /\ w.emitted[1].event = [kind |-> "RootAdded", document |-> d, model |-> m]
              /\ RootEventsSeen(w)
       /\ m \in roots[d] =>
            LET w == remove_root(World, d, m) IN
            /\ Len(w.emitted) = 1
            /\ w.emitted[1].event = [kind |-> "RootRemoved", document |-> d, model |-> m]
            /\ RootEventsSeen(w)
  /\ \A d \in Docs : \A ord \in Orders(roots[d]) : RootEventsSeen(clear(World, d, ord))

\* The listeners of d got the events of w, and no others.
Delivered(w, d) ==
  \A l \in Listeners :
    [k \in DOMAIN w.received[l] |-> w.received[l][k].event] =
      IF l \in callbacks[d] THEN [k \in DOMAIN w.emitted |-> w.emitted[k].event] ELSE <<>>

\* add_...(callback) on d ended in w: the table holds a new handle of the
\* kind under the callback, the rest of it is as it was, and the one event
\* is SessionCallbackAdded with that handle.
AddedHandle(w, d, f, kind) ==
  /\ w.exc = Ok
  /\ f \in DOMAIN w.session_callbacks[d]
  /\ LET h == w.session_callbacks[d][f] IN
     /\ h.kind = kind /\ h._document = d /\ h._callback = f
     /\ h \notin Handles(World)
     /\ \A old \in Handles(World) : old._id # h._id
     /\ w = [World EXCEPT !.session_callbacks[d] = setitem(@, f, h),
                          !.emitted = w.emitted, !.received = w.received,
                          !.acted = w.acted]
     /\ Len(w.emitted) = 1
     /\ w.emitted[1].event = [kind |-> "SessionCallbackAdded", document |-> d, callback |-> h]
     /\ Delivered(w, d)

\* remove_...(callback) on d ended in w.
RemovedHandle(w, d, f) ==
  IF f \in DOMAIN session_callbacks[d]
  THEN /\ w.exc = Ok
       /\ w = [World EXCEPT !.session_callbacks[d] = popitem(@, f),
                            !.emitted = w.emitted, !.received = w.received,
                          !.acted = w.acted]
       /\ Len(w.emitted) = 1
       /\ w.emitted[1].event = [kind |-> "SessionCallbackRemoved", document |-> d,
                                callback |-> session_callbacks[d][f]]
       /\ Delivered(w, d)
  ELSE w.exc # Ok /\ w = Raise(World, w.exc)

\* C16: add_periodic_callback and add_timeout_callback store a handle under
\* the callback and emit one SessionCallbackAdded with that handle; the
\* removal of a registered callback takes the entry out and emits one
\* SessionCallbackRemoved with the handle that was stored; the removal of a
\* callback that is not registered fails and changes nothing, and no event
\* is emitted.
C16_SessionCallbackRegistry ==
  \A d \in Docs, f \in UserCallbacks :
    /\ AddedHandle(add_periodic_callback(World, d, f), d, f, "periodic")
    /\ AddedHandle(add_timeout_callback(World, d, f), d, f, "timeout")
    /\ RemovedHandle(remove_periodic_callback(World, d, f), d, f)
    /\ RemovedHandle(remove_timeout_callback(World, d, f), d, f)

\* C16 witness: d1 has a listener, f is registered and g is not, so that a
\* callback is added with an event, f is removed with an event, and the
\* removal of g fails.
C16_Witness ==
  /\ callbacks["d1"] # {}
  /\ DOMAIN session_callbacks["d1"] = {"f"}
  /\ add_timeout_callback(World, "d1", "g").received # World.received
  /\ remove_periodic_callback(World, "d1", "f").session_callbacks["d1"] = <<>>
  /\ remove_periodic_callback(World, "d1", "g").exc = "KeyError"

\* C17: remove() on a handle of a table is remove_periodic_callback or
\* remove_timeout_callback of its callback on its document: the entry is
\* taken out and SessionCallbackRemoved is emitted, in the same way.
C17_HandleRemove ==
  \A d \in Docs : \A f \in DOMAIN session_callbacks[d] :
    LET h == session_callbacks[d][f] IN
    remove(World, h) = IF h.kind = "periodic" THEN remove_periodic_callback(World, d, f)
                       ELSE remove_timeout_callback(World, d, f)

\* C18: to add a callback that is registered fails, the table and the handle
\* it holds stay as they are, and no event is emitted.
C18_AlreadyRegistered ==
  \A d \in Docs : \A f \in DOMAIN session_callbacks[d] :
    \A w \in {add_periodic_callback(World, d, f), add_timeout_callback(World, d, f)} :
      w.exc # Ok /\ w = Raise(World, w.exc)

\* apply_json_patch(patch) when the loop over the events has done the k-th:
\* the records are those of the patch and the instances those of all of it.
Applied(w, self, patch, k) ==
  LET i == _instantiate_references_json(w, patch.references)
      instances == patch_instances(i.w, self, patch, i.references)
      w1 == _initialize_references_json(i.w, patch.references, instances, 1)
  IN apply_events(w1, self, SubSeq(patch.events, 1, k), instances, 1)

UnknownTarget == "RuntimeError: Cannot apply patch to a model which is not in the document"

UnknownPatchKind == "RuntimeError: Unknown patch event"

\* The events of w that follow those of w0 are of the document self and are
\* what the record e of a patch stands for.
EmittedFor(w0, w, self, e) ==
  /\ Len(w0.emitted) <= Len(w.emitted)
  /\ SubSeq(w.emitted, 1, Len(w0.emitted)) = w0.emitted
  /\ \A j \in (Len(w0.emitted) + 1)..Len(w.emitted) :
       LET ev == w.emitted[j].event IN
       /\ ev.document = self /\ ev.kind = e.kind
       /\ ev.kind = "TitleChanged" => ev.title = e.title
       /\ ev.kind # "TitleChanged" => IdOf[ev.model] = e.model
       /\ ev.kind = "ModelChanged" => ev.attr = e.attr

\* The contract of the applier for the k-th event of a patch.
EventContract(patch, k) ==
  LET e == patch.events[k]
      before == Applied(World, "d2", patch, k - 1)
      after == Applied(World, "d2", patch, k)
      whole == apply_json_patch(World, "d2", patch)
      known == e.kind \in {"ModelChanged", "RootAdded", "RootRemoved", "TitleChanged"}
      target == IF "model" \in DOMAIN e THEN before.all_models["d2"][e.model] ELSE None
  IN before.exc = Ok =>
       /\ ~known => after = Raise(before, UnknownPatchKind) /\ whole = after
       /\ (e.kind = "ModelChanged" /\ target = None) =>
            after = Raise(before, UnknownTarget) /\ whole = after
       /\ (e.kind = "ModelChanged" /\ target # None) =>
            /\ after.exc = Ok
            /\ IF e.attr = "name" THEN after.name[target] = e.new
               ELSE IdOrNone(after.child[target]) = e.new
       /\ after.exc # Ok => whole = after
       /\ known => EmittedFor(before, after, "d2", e)

\* C19: the events of a patch are applied in the order of the list; a
\* ModelChanged event of an id _all_models does not have when the event is
\* reached fails, and one of an id it has by then succeeds, as it does
\* right after the RootAdded of its model; an event of another kind than
\* the four fails; a failure ends the call with the exception and with the
\* document as the events before left it.
C19_PatchErrorContract ==
  (phase = "synced" /\ CanInstantiate(World)) =>
    \A patch \in ForgedPatches(World) \cup
                 {create_json_patch_string(World, "d1", captured, ord) :
                    ord \in Orders(patch_references(World, captured))} :
      /\ apply_json_patch(World, "d2", patch) = Applied(World, "d2", patch, Len(patch.events))
      /\ Applied(World, "d2", patch, 0).exc = Ok
      /\ \A k \in DOMAIN patch.events : EventContract(patch, k)

\* C19 witness: the captured events are the RootAdded of a model d2 does not
\* have and a change of that model; the patch is applied, a forged change of
\* an id d2 does not have fails, and so does an event of an unknown kind
\* after the first event was applied.
C19_Witness ==
  /\ phase = "synced" /\ CanInstantiate(World) /\ Len(captured) = 2
  /\ captured[1].kind = "RootAdded" /\ captured[2].kind = "ModelChanged"
  /\ captured[2].model = captured[1].model
  /\ all_models["d2"][IdOf[captured[1].model]] = None
  /\ \E ord \in Orders(patch_references(World, captured)) :
       LET patch == create_json_patch_string(World, "d1", captured, ord)
           bogus == Forge(patch, 2, [kind |-> "Bogus"])
       IN /\ apply_json_patch(World, "d2", patch).exc = Ok
          /\ apply_json_patch(World, "d2", patch).all_models["d2"][IdOf[captured[1].model]] # None
          /\ apply_json_patch(World, "d2", bogus).exc = UnknownPatchKind
          /\ Len(apply_json_patch(World, "d2", bogus).emitted) = 1
          /\ \E i \in Ids :
               apply_json_patch(World, "d2",
                 Forge(patch, 1, [kind |-> "ModelChanged", model |-> i, attr |-> "name",
                                  new |-> "q"])).exc = UnknownTarget

\* No model is in the tables of both documents, and no model of the table
\* of one is attached to the other, when the event of the call c is emitted.
Apart(c, self, dest) ==
  /\ c.tables[self] \cap c.tables[dest] = {}
  /\ \A m \in c.tables[self] : c.documents[m] # dest
  /\ \A m \in c.tables[dest] : c.documents[m] # self

\* The states of a move from self to dest that ended in w: those in which an
\* event was emitted, and the last one.
MovedApart(w, self, dest) ==
  /\ ~w.foreign
  /\ \A k \in DOMAIN w.emitted : Apart(w.emitted[k], self, dest)
  /\ Apart(Call(w, dest, None), self, dest)
  /\ \A k \in DOMAIN w.emitted :
       (w.emitted[k].event.kind = "RootAdded" /\ w.emitted[k].event.document = dest) =>
         /\ w.emitted[k].tables[self] = {}
         /\ \A m \in Model : w.emitted[k].documents[m] # self
         /\ \A j \in DOMAIN w.emitted :
              (w.emitted[j].event.kind = "RootRemoved"
               /\ w.emitted[j].event.document = self) => j < k

\* C20: in a move and in replace_with_json no model is in _all_models of
\* the source and of the destination at once, or in that of one and attached
\* to the other, in any state in which an event is emitted, which are those
\* the listeners are called in, nor at the end; the roots of the source are
\* all removed and its models detached before a root is added to the
\* destination.
C20_MoveKeepsApart ==
  /\ \A self \in Docs : \A dest \in Docs \ {self} :
       \A ord_dest \in Orders(roots[dest]), ord_self \in Orders(roots[self]) :
         MovedApart(_destructively_move(World, self, dest, ord_dest, ord_self), self, dest)
  /\ (phase = "build" /\ Pristine(World, "d2") /\ CanInstantiate(World)) =>
       \A json \in Jsons(World), ord_dest \in Orders(roots["d1"]) :
         \A ord_self \in Orders(from_json(World, json, "d2").roots["d2"]) :
           MovedApart(replace_with_json(World, "d1", json, "d2", ord_dest, ord_self),
                      "d2", "d1")

\* C20 witness: d1 has two roots with one child and a listener, so that a
\* move to d2 removes two roots before it adds one, and d1 is replaced by
\* its own JSON, of which the copies take the place of its models.
C20_Witness ==
  /\ phase = "build" /\ Pristine(World, "d2") /\ CanInstantiate(World)
  /\ Cardinality(roots["d1"]) = 2 /\ callbacks["d1"] # {}
  /\ \E r \in roots["d1"], q \in roots["d1"] : r # q /\ child[r] # None /\ child[r] = child[q]
  /\ \E ord \in Orders(roots["d1"]) :
       LET w == _destructively_move(World, "d1", "d2", <<>>, ord) IN
       /\ w.exc = Ok /\ Len(w.emitted) = 4 /\ w.roots["d2"] = roots["d1"]
       /\ w.emitted[3].event.kind = "RootAdded"
  /\ \E json \in Jsons(World), ord_dest \in Orders(roots["d1"]) :
       \E ord_self \in Orders(from_json(World, json, "d2").roots["d2"]) :
         LET w == replace_with_json(World, "d1", json, "d2", ord_dest, ord_self) IN
         /\ w.exc = Ok /\ Cardinality(w.roots["d1"]) = 2 /\ w.roots["d1"] \subseteq Copies

\* The methods of the sequence ms the receiver has, in the order of ms.
Having(ms, rcv) == SelectSeq(ms, LAMBDA m : m \in rcv)

\* C21: the dispatch of a ModelChanged event calls _document_changed,
\* _document_patched and _document_model_changed of the receiver, in this
\* order and each once; a method the receiver does not have is skipped, and
\* nothing is raised.
C21_ModelChangedDispatch ==
  dispatch("ModelChanged", receiver) =
    [exc |-> Ok,
     calls |-> Having(<<"_document_changed", "_document_patched",
                        "_document_model_changed">>, receiver)]

\* The dict d has the values of the dict c, and under the key k those of vs.
MapsTo(d, c, k, vs) ==
  \A j \in Names : get_all(d, j) = IF j = k THEN vs ELSE get_all(c, j)

\* C22: a _MultiValuedDict is a map from a key to a set of values.  A new
\* one has no values; add_value(k, v) for a key and a value that are not
\* None adds v to the values of k and remove_value(k, v) takes it out, and
\* the values of the other keys stay; get_all(k) is that set, so that a
\* value added twice and removed once is absent, the removal of a value
\* that is absent changes nothing, and a value added under a key with no
\* values and removed leaves none; add_value with the key None, the value
\* None or a set as the value raises and changes nothing.
C22_MultiIndexRefinesMap ==
  /\ index = EmptyDict => \A k \in Names : get_all(index, k) = {}
  /\ \A k \in Names, v \in Orig :
       LET a == checked_add_value(index, k, v)
           r == checked_remove_value(index, k, v)
           aa == checked_add_value(a.dict, k, v)
           aar == checked_remove_value(aa.dict, k, v)
           ar == checked_remove_value(a.dict, k, v)
       IN /\ a.exc = Ok /\ MapsTo(a.dict, index, k, get_all(index, k) \cup {v})
          /\ r.exc = Ok /\ MapsTo(r.dict, index, k, get_all(index, k) \ {v})
          /\ v \notin get_all(index, k) => r.dict = index
          /\ aa.exc = Ok /\ aar.exc = Ok /\ v \notin get_all(aar.dict, k)
          /\ ar.exc = Ok /\ (get_all(index, k) = {} => ar.dict = index)
  /\ \A k \in Names \cup {None}, v \in Orig \cup {None, SetValue} :
       (k = None \/ v \in {None, SetValue}) =>
         LET a == checked_add_value(index, k, v)
         IN a.exc # Ok /\ a.dict = index

\* C22 witness: a key has two values and the other key a set of one value,
\* which is what is left of two: values were added and removed.
C22_Witness ==
  \E k \in Names, j \in Names :
    /\ k # j /\ index[k].t = "set" /\ Cardinality(index[k].s) = 2
    /\ index[j].t = "set" /\ Cardinality(index[j].s) = 1

\* The patch was applied to d2 and ended in w: a model of d2 after the patch,
\* in _all_models or reached from a root, whose id _all_models had before,
\* is the instance it had; a reference to such an id is to that instance;
\* and no two instances of d2 have one id.
KeepsLive(w) ==
  LET after == Values(w.all_models["d2"]) \cup Closure(w, "d2") IN
  /\ \A m \in after :
       all_models["d2"][IdOf[m]] # None => m = all_models["d2"][IdOf[m]]
  /\ \A m \in after :
       (w.child[m] # None /\ all_models["d2"][IdOf[w.child[m]]] # None) =>
         w.child[m] = all_models["d2"][IdOf[w.child[m]]]
  /\ \A m \in after, n \in after : IdOf[m] = IdOf[n] => m = n

\* C23: a patch applied to a document does not put a new instance in the
\* place of a model _all_models has: an id it had before and has after is
\* the same instance, the references of the patch to that id are to that
\* instance, and the document has one instance of an id.
C23_PatchKeepsLiveInstances ==
  (phase = "synced" /\ CanInstantiate(World)) =>
    \A ord \in Orders(patch_references(World, captured)) :
      KeepsLive(apply_json_patch(World, "d2",
                                 create_json_patch_string(World, "d1", captured, ord)))

\* C23 witness: a model d2 does not have is made a root, and its child is a
\* model d2 has; the patch has a record for both, it is applied, and d2 has
\* a new instance for the one and the instance it had for the other.
C23_Witness ==
  /\ phase = "synced" /\ CanInstantiate(World)
  /\ \E k \in DOMAIN captured :
       /\ captured[k].kind = "RootAdded"
       /\ all_models["d2"][IdOf[captured[k].model]] = None
       /\ child[captured[k].model] # None
       /\ all_models["d2"][IdOf[child[captured[k].model]]] # None
       /\ \E ord \in Orders(patch_references(World, captured)) :
            LET patch == create_json_patch_string(World, "d1", captured, ord)
                w == apply_json_patch(World, "d2", patch)
                new == w.all_models["d2"][IdOf[captured[k].model]]
            IN /\ w.exc = Ok /\ new \in Copies /\ new \in w.roots["d2"]
               /\ IdOf[child[captured[k].model]] \in RecordIds(patch)
               /\ w.child[new] = all_models["d2"][IdOf[child[captured[k].model]]]

\* The events of a patch at which apply_json_patch raises when the list ends
\* there.
Failing(patch) ==
  {k \in DOMAIN patch.events : Applied(World, "d2", patch, k).exc # Ok}

\* A patch applied to d2 failed and ended in w: the document is what the
\* initialization of the records and the events before the failing one made
\* of it, with the events they emitted, and is sound.
LeftHalfway(w, patch) ==
  LET i == CHOOSE k \in Failing(patch) : \A j \in Failing(patch) : k <= j
      before == Applied(World, "d2", patch, i - 1)
      initialized == Applied(World, "d2", patch, 0)
  IN /\ Failing(patch) # {}
     /\ before.exc = Ok /\ w = Raise(before, w.exc)
     /\ initialized.exc = Ok
     /\ Len(initialized.emitted) <= Len(w.emitted)
     /\ SubSeq(w.emitted, 1, Len(initialized.emitted)) = initialized.emitted
     /\ \A l \in Listeners :
          [k \in DOMAIN w.received[l] |-> w.received[l][k].event] =
            IF l \in callbacks["d2"] THEN [k \in DOMAIN w.emitted |-> w.emitted[k].event]
            ELSE <<>>
     /\ \A d \in Docs : w.freeze[d] = 0
     /\ Closed(w) /\ Attached(w)

\* C24: a patch is not applied as a whole.  When apply_json_patch raises
\* at an event, for a model _all_models does not have or for a kind that is
\* not known, the records have been initialized and the events before it
\* applied, with their events emitted, and stay so; the events after it are
\* not applied; the freeze counter is 0 and _all_models is the closure of
\* the roots in the state that is left.
C24_PatchNotAtomic ==
  (phase = "synced" /\ CanInstantiate(World)) =>
    \A patch \in ForgedPatches(World) \cup
                 {create_json_patch_string(World, "d1", captured, ord) :
                    ord \in Orders(patch_references(World, captured))} :
      LET w == apply_json_patch(World, "d2", patch) IN
      w.exc \in {UnknownTarget, UnknownPatchKind} => LeftHalfway(w, patch)

\* C24 witness: a patch of two events, of which the first adds a root, fails
\* at an event of an unknown kind put in after them: d2 has the new root.
C24_Witness ==
  /\ phase = "synced" /\ CanInstantiate(World) /\ Len(captured) = 2
  /\ captured[1].kind = "RootAdded"
  /\ \E patch \in ForgedPatches(World) :
       LET w == apply_json_patch(World, "d2", patch) IN
       /\ patch.events[3] = [kind |-> "Bogus"]
       /\ w.exc = UnknownPatchKind
       /\ Len(w.emitted) >= 2
       /\ w.roots["d2"] # roots["d2"]
       /\ {IdOf[m] : m \in w.roots["d2"]} = {IdOf[m] : m \in roots["d1"]}

RaisedByCallback == "Exception: raised by a callback"

\* The listeners of d1 that the loop of _trigger_on_change reaches in the
\* world w: those the order lists up to the first one that raises.
Reached(w) ==
  LET items == SelectSeq(w.order, LAMBDA l : l \in callbacks["d1"])
      stops == {k \in DOMAIN items : w.script[items[k]].do = "raise"}
  IN {items[k] : k \in {j \in DOMAIN items : \A i \in stops : j <= i}}

Raisers(w) == {l \in callbacks["d1"] : w.script[l].do = "raise"}

\* An operation on d1 that emits one event began in w0 and ended in w, and
\* ends in quiet when no listener raises: the exception of the listener is
\* that of the operation, the listeners after it were not called, the state
\* is that of the operation without the exception, and the freeze counter
\* is as before.
RaisedThrough(w0, w, quiet) ==
  /\ Len(quiet.emitted) = 1 /\ quiet.exc = Ok
  /\ w.exc = IF Raisers(w0) = {} THEN Ok ELSE RaisedByCallback
  /\ \A l \in Listeners : Len(w.received[l]) = IF l \in Reached(w0) THEN 1 ELSE 0
  /\ w.emitted = quiet.emitted
  /\ [w EXCEPT !.exc = Ok, !.received = quiet.received, !.acted = quiet.acted,
               !.script = quiet.script, !.order = quiet.order] = quiet
  /\ w.freeze = freeze

\* clear() of d1, which has a root and a listener that raises, began in w0
\* and ended in w: the first root is removed and the others are not, the
\* listeners were called for its event alone, and the freeze is popped.
RaisedInClear(w0, w, ord) ==
  /\ w.exc = RaisedByCallback
  /\ w.roots["d1"] = roots["d1"] \ {First(roots["d1"], ord)}
  /\ Len(w.emitted) = 1
  /\ w.emitted[1].event = [kind |-> "RootRemoved", document |-> "d1",
                           model |-> First(roots["d1"], ord)]
  /\ \A l \in Listeners : Len(w.received[l]) = IF l \in Reached(w0) THEN 1 ELSE 0
  /\ w.freeze = freeze /\ Closed(w) /\ Attached(w)

\* C25: when a listener raises at the event of add_root, remove_root, a
\* change of the title or the addition or removal of a session callback,
\* the operation ends with that exception, the listeners that come later in
\* the iteration are not called for the event, the roots, _all_models, the
\* title or the table are changed as without the exception, and the freeze
\* counter is what it was; so it is when the listener raises in clear().
C25_ListenerRaises ==
  \A w0 \in Raising :
    /\ \A m \in Orig \ roots["d1"] :
         ~add_root(World, "d1", m).foreign =>
           RaisedThrough(w0, add_root(w0, "d1", m), add_root(World, "d1", m))
    /\ \A m \in roots["d1"] :
         RaisedThrough(w0, remove_root(w0, "d1", m), remove_root(World, "d1", m))
    /\ \A t \in Titles \ {title["d1"]} :
         RaisedThrough(w0, set_title(w0, "d1", t), set_title(World, "d1", t))
    /\ \A f \in UserCallbacks :
         /\ RaisedThrough(w0, add_periodic_callback(w0, "d1", f),
                          add_periodic_callback(World, "d1", f))
         /\ RaisedThrough(w0, add_timeout_callback(w0, "d1", f),
                          add_timeout_callback(World, "d1", f))
    /\ \A f \in DOMAIN session_callbacks["d1"] :
         /\ RaisedThrough(w0, remove_periodic_callback(w0, "d1", f),
                          remove_periodic_callback(World, "d1", f))
         /\ RaisedThrough(w0, remove_timeout_callback(w0, "d1", f),
                          remove_timeout_callback(World, "d1", f))
    /\ (roots["d1"] # {} /\ Raisers(w0) # {}) =>
         \A ord \in Orders(roots["d1"]) : RaisedInClear(w0, clear(w0, "d1", ord), ord)

\* C25 witness: d1 has two roots, a session callback and two listeners, of
\* which the first one raises: add_root, the removal of the callback and
\* clear() end with the exception, and the second listener is not called.
C25_Witness ==
  /\ callbacks["d1"] = Listeners /\ Cardinality(roots["d1"]) = 2
  /\ "f" \in DOMAIN session_callbacks["d1"]
  /\ LET w0 == With(World, [l \in Listeners |-> IF l = "L1" THEN [do |-> "raise"] ELSE Pass],
                    <<"L1", "L2">>, 3)
     IN /\ \E m \in Orig \ roots["d1"] :
             LET w == add_root(w0, "d1", m) IN
             w.exc = RaisedByCallback /\ m \in w.roots["d1"] /\ w.received["L2"] = <<>>
        /\ LET w == remove_periodic_callback(w0, "d1", "f") IN
           w.exc = RaisedByCallback /\ DOMAIN w.session_callbacks["d1"] = {}
        /\ \E ord \in Orders(roots["d1"]) :
             LET w == clear(w0, "d1", ord) IN
             /\ w.exc = RaisedByCallback /\ Cardinality(w.roots["d1"]) = 1
             /\ Len(w.received["L1"]) = 1 /\ w.received["L2"] = <<>>

=============================================================================
